---- MODULE Spec2Model ----
(***************************************************************************)
(* MiniLedger: merchant balances per currency and transfers between        *)
(* merchants with a percentage fee, gated by an idempotency key.           *)
(*                                                                         *)
(* Every HTTP request runs in one database session (get_db): the session   *)
(* commits when the handler returns and rolls back when it raises.  The    *)
(* store is PostgreSQL (config.py) at READ COMMITTED: a statement sees the *)
(* rows committed before it starts plus the session's own writes, SELECT   *)
(* ... FOR UPDATE waits for and then holds the row's lock until the        *)
(* session ends, and an INSERT into a unique index waits for a concurrent  *)
(* uncommitted insert of the same key and fails once that one commits.     *)
(*                                                                         *)
(* Money is counted in units of 0.000000001 (1.0 is 1000000000, 0.00005 is *)
(* 50000), one digit finer than the Numeric(20, 8) columns hold: a caller  *)
(* may send an amount with more than 8 fractional digits, Python's Decimal *)
(* computes with it exactly, and the store rounds what it is given to 8    *)
(* places when the value is written to a column.                           *)
(***************************************************************************)
EXTENDS Integers, FiniteSets, Sequences, TLC

\* ---------------------------------------------------------------- bounds

\* Number of concurrent requests (one database session each).
NumReqs == 2

Reqs == 1..NumReqs

Names == {"alice", "bob"}

\* The merchant names a transfer may carry: "nobody" is never created.
PayloadNames == Names \cup {"nobody"}

Currencies == {"BTC"}

\* Number of distinct idempotency keys callers use.
NumKeys == 2

Keys == 1..NumKeys

\* Transfer amounts a caller may send: 0 is the non-positive case, 5 is
\* 0.000000005, an amount finer than the columns' 8 places.
Amounts == {0, 5, 50000, 999000000}

\* Initial balances a merchant may be created with (-10 is the negative case).
InitialBalances == {-10, 0, 1000000000}

\* ------------------------------------------------------------- constants

\* settings.transfer_fee_percent = 0.1, written in tenths of a percent.
FeePercentTenths == 1

\* Decimal("0.00000001"), the exponent calculate_fee quantizes to, in money units.
FeeQuantum == 10

\* Numeric(20, 8): the last digit a money column holds, in money units.
ColumnUnit == 10

NoResult == [kind |-> "none"]

\* ------------------------------------------------------------------ state

VARIABLES
    merchants,   \* committed rows of table merchants: [name, rid]
    balances,    \* committed rows of table balances: [merchant_name, currency, amount, rid]
    transfers,   \* committed rows of table transfers
    idem,        \* committed rows of table idempotency_keys
    nextId,      \* the transfers.id sequence (not transactional)
    clock,       \* datetime.utcnow(), as a logical time
    req,         \* each request's payload
    pc,          \* each request's position in its handler
    tx,          \* each request's open transaction: locks held and flushed, uncommitted writes
    fee,         \* each request's local variable fee
    outcome,     \* what the caller of each request is told
    cause,       \* the exception the handler caught (and logged) for a failed request
    result,      \* the response body of a successful request
    initial      \* history: the initial balance each committed merchant was created with

vars == <<merchants, balances, transfers, idem, nextId, clock, req, pc, tx, fee,
          outcome, cause, result, initial>>

db == <<merchants, balances, transfers, idem>>

Rows == Names \X Currencies

NoReq == [kind |-> "none"]

\* The empty string as an idempotency key; the keys callers choose are 1, 2, ...
EmptyKey == 0

\* The empty string as a currency.
EmptyCurrency == ""

EmptyTx == [locks |-> {}, bupd |-> {}, bins |-> {}, tins |-> {}, kins |-> {}, mins |-> {}]

\* ---------------------------------------------------------------- helpers

\* PercentageFeeCalculator.calculate_fee for amount > 0: amount * percent / 100
\* quantized to 8 places with the decimal context's ROUND_HALF_EVEN.
calculate_fee(amount) ==
    LET num == amount * FeePercentTenths
        den == 1000 * FeeQuantum
        q == num \div den
        r == num % den
    IN  FeeQuantum * (IF 2 * r > den \/ (2 * r = den /\ q % 2 = 1) THEN q + 1 ELSE q)

\* The value a Numeric(20, 8) column holds after x >= 0 is written to it:
\* PostgreSQL rounds to the column's scale, ties away from zero.
Stored(x) ==
    LET q == x \div ColumnUnit
        r == x % ColumnUnit
    IN  ColumnUnit * (IF 2 * r >= ColumnUnit THEN q + 1 ELSE q)

\* The committed rows of balances for (merchant, currency).
BalanceRows(m, c) == {b \in balances : b.merchant_name = m /\ b.currency = c}

\* Mutant: the use cases do not look the merchant up.
MerchantExistsAlways(n) == TRUE

\* select(MerchantModel).where(name == ...): the merchant is committed.
MerchantExists(n) == \E m \in merchants : m.name = n

\* Mutant: the probe's query never finds the stored record.
StoredResponsesNone(k) == {}

\* select(IdempotencyKeyModel).where(idempotency_key == ...).
StoredResponses(k) == {i \in idem : i.idempotency_key = k}

\* Another session holds the lock of row (m, c).
LockedByOther(p, m, c) == \E q \in Reqs \ {p} : <<m, c>> \in tx[q].locks

\* Mutant: the lock is taken on the whole table, not on the selected row.
CanLockTable(p, m, c) == \A q \in Reqs \ {p} : tx[q].locks = {}

\* Mutant: the SELECT takes no row lock (with_for_update() left out).
CanLockAlways(p, m, c) == TRUE

\* The row lock SELECT ... FOR UPDATE takes on (m, c) can be granted to p.
CanLock(p, m, c) == ~LockedByOther(p, m, c)

\* Mutant: subtract_amount without its new_amount < 0 test.
InsufficientNever(current, amount) == FALSE

\* The Python-side sufficiency test of subtract_amount: new_amount < 0 raises.
Insufficient(current, amount) == current - amount < 0

\* Mutant: the failed session is never rolled back or closed: its row locks stay.
RollbackKeepsLocks(p) == [tx EXCEPT ![p] = [EmptyTx EXCEPT !.locks = tx[p].locks]]

\* session.rollback(): the session's flushed writes are dropped, its locks released.
Rollback(p) == [tx EXCEPT ![p] = EmptyTx]

\* The rows of balances after session p's flushed updates and inserts commit.
CommittedBalances(p) ==
    {IF \E u \in tx[p].bupd : u.merchant_name = b.merchant_name
                              /\ u.currency = b.currency /\ u.rid = b.rid
     THEN [b EXCEPT !.amount =
              (CHOOSE u \in tx[p].bupd : u.merchant_name = b.merchant_name
                                         /\ u.currency = b.currency /\ u.rid = b.rid).amount]
     ELSE b : b \in balances} \cup tx[p].bins

\* Mutant: the flushed balance writes of a failed session stay (no rollback).
BalancesKeptOnRollback(p) == CommittedBalances(p)

\* The committed balances after session p rolls back: none of its writes.
BalancesAfterRollback(p) == balances

\* Mutant: the refusal is stored under the key of the request.
FailConsumesKey(p, o, e) ==
    /\ tx' = Rollback(p)
    /\ balances' = BalancesAfterRollback(p)
    /\ pc' = [pc EXCEPT ![p] = "done"]
    /\ outcome' = [outcome EXCEPT ![p] = o]
    /\ cause' = [cause EXCEPT ![p] = e]
    /\ idem' = idem \cup {[idempotency_key |-> req[p].idempotency_key, transfer_id |-> 0,
                            response_data |-> [error |-> o]]}
    /\ UNCHANGED <<merchants, transfers, initial, result>>

\* The handler raised exception e: get_db rolls the session back and the
\* caller is told `o`.
Fail(p, o, e) ==
    /\ tx' = Rollback(p)
    /\ balances' = BalancesAfterRollback(p)
    /\ pc' = [pc EXCEPT ![p] = "done"]
    /\ outcome' = [outcome EXCEPT ![p] = o]
    /\ cause' = [cause EXCEPT ![p] = e]
    /\ UNCHANGED <<merchants, transfers, idem, initial, result>>

\* Mutant: the idempotency_key columns carry no unique index.
KeyTakenNever(rows, k) == FALSE

\* A unique index on column idempotency_key of `rows` refuses a second row for k.
KeyTaken(rows, k) == \E r \in rows : r.idempotency_key = k

\* The row session p reads for committed row b: its own flushed update of b,
\* if any, else b.
OwnView(p, b) ==
    IF \E u \in tx[p].bupd : u.merchant_name = b.merchant_name
                              /\ u.currency = b.currency /\ u.rid = b.rid
    THEN CHOOSE u \in tx[p].bupd : u.merchant_name = b.merchant_name
                                    /\ u.currency = b.currency /\ u.rid = b.rid
    ELSE b

\* Session p's flushed updates with row b's new amount put in place.
WithUpdate(p, b, amount) ==
    {u \in tx[p].bupd : ~(u.merchant_name = b.merchant_name
                           /\ u.currency = b.currency /\ u.rid = b.rid)}
    \cup {[b EXCEPT !.amount = amount]}

\* The position of request p becomes s.
Goto(p, s) == pc' = [pc EXCEPT ![p] = s]

\* ------------------------------------------------------------------- Init

\* The store holds what earlier, completed create_merchant calls left: each name
\* is absent, or present with the balance row its initial balance produced
\* (none for an initial balance of 0).
Init ==
    \E present \in SUBSET Names :
    \E ib \in [Names -> {x \in InitialBalances : x >= 0}] :
        /\ \A n \in Names \ present : ib[n] = 0
        /\ merchants = {[name |-> n, rid |-> 0] : n \in present}
        /\ balances = {[merchant_name |-> n, currency |-> "BTC", amount |-> ib[n], rid |-> 0] :
                          n \in {x \in present : ib[x] > 0}}
        /\ initial = [r \in Rows |-> IF r[2] = "BTC" THEN ib[r[1]] ELSE 0]
        /\ transfers = {}
        /\ idem = {}
        /\ nextId = 1
        /\ clock = 0
        /\ req = [p \in Reqs |-> NoReq]
        /\ pc = [p \in Reqs |-> "idle"]
        /\ tx = [p \in Reqs |-> EmptyTx]
        /\ fee = [p \in Reqs |-> 0]
        /\ outcome = [p \in Reqs |-> "none"]
        /\ cause = [p \in Reqs |-> "none"]
        /\ result = [p \in Reqs |-> NoResult]

\* Requests are numbered in the order they arrive.
MayStart(p) == pc[p] = "idle" /\ \A q \in Reqs : q < p => pc[q] # "idle"

\* Keys are numbered in the order callers first use them.
UsedKeys == {req[q].idempotency_key : q \in {r \in Reqs : req[r].kind = "transfer"}}

MayUseKey(k) == k \in UsedKeys \/ \A j \in Keys : j < k => j \in UsedKeys

\* ------------------------------------------------- POST /transfers

\* A caller sends a transfer request.
StartTransfer(p) ==
    /\ MayStart(p)
    /\ \E f \in PayloadNames, t \in PayloadNames, c \in Currencies, a \in Amounts,
          k \in {j \in Keys : MayUseKey(j)} :
          req' = [req EXCEPT ![p] = [kind |-> "transfer", from_merchant |-> f,
                                     to_merchant |-> t, currency |-> c, amount |-> a,
                                     idempotency_key |-> k]]
    /\ Goto(p, "route_probe")
    /\ UNCHANGED <<merchants, balances, transfers, idem, nextId, clock, tx, fee,
                   outcome, cause, result, initial>>

\* The stored response returned for a key that has a record.
Replay(p, duplicate) ==
    /\ \E i \in StoredResponses(req[p].idempotency_key) :
          result' = [result EXCEPT ![p] = [kind |-> "transfer",
                                           snapshot |-> i.response_data,
                                           is_duplicate |-> duplicate]]
    /\ outcome' = [outcome EXCEPT ![p] = "ok"]
    /\ Goto(p, "done")
    /\ UNCHANGED <<merchants, balances, transfers, idem, nextId, clock, req, tx, fee,
                   cause, initial>>

\* Mutant: the amount is validated before the key is looked up.
RouteProbeValidatesFirst(p) ==
    /\ pc[p] = "route_probe"
    /\ IF req[p].amount <= 0
       THEN /\ Fail(p, "InvalidTransfer", "InvalidTransferError(amount)")
            /\ UNCHANGED <<nextId, clock, req, fee>>
       ELSE IF StoredResponses(req[p].idempotency_key) # {}
       THEN Replay(p, TRUE)
       ELSE /\ Goto(p, "uc_probe")
            /\ UNCHANGED <<merchants, balances, transfers, idem, nextId, clock, req, tx,
                           fee, outcome, cause, result, initial>>

\* routes.execute_transfer: an empty Idempotency-Key header is refused with
\* status 400; then the handler's own probe of the idempotency table.
RouteProbe(p) ==
    /\ pc[p] = "route_probe"
    /\ IF req[p].idempotency_key = EmptyKey
       THEN /\ Fail(p, "InvalidRequest", "HTTPException(400)")
            /\ UNCHANGED <<nextId, clock, req, fee>>
       ELSE IF StoredResponses(req[p].idempotency_key) # {}
       THEN Replay(p, TRUE)
       ELSE /\ Goto(p, "uc_probe")
            /\ UNCHANGED <<merchants, balances, transfers, idem, nextId, clock, req, tx,
                           fee, outcome, cause, result, initial>>

\* ExecuteTransferUseCase.execute: the use case's probe (its second read decides).
UcProbe(p) ==
    /\ pc[p] = "uc_probe"
    /\ IF StoredResponses(req[p].idempotency_key) # {}
       THEN Replay(p, FALSE)
       ELSE /\ Goto(p, "check_from")
            /\ UNCHANGED <<merchants, balances, transfers, idem, nextId, clock, req, tx,
                           fee, outcome, cause, result, initial>>

\* merchant_repo.get_by_name(from_merchant).
CheckFrom(p) ==
    /\ pc[p] = "check_from"
    /\ UNCHANGED <<nextId, clock, req, fee>>
    /\ IF ~MerchantExists(req[p].from_merchant)
       THEN Fail(p, "MerchantNotFound", "MerchantNotFoundError")
       ELSE /\ Goto(p, "check_to")
            /\ UNCHANGED <<merchants, balances, transfers, idem, tx, outcome, cause, result,
                           initial>>

\* Mutant: the validation without its from_merchant == to_merchant test.
CheckToNoSelfTest(p) ==
    /\ pc[p] = "check_to"
    /\ UNCHANGED <<nextId, clock, req>>
    /\ IF ~MerchantExists(req[p].to_merchant)
       THEN Fail(p, "MerchantNotFound", "MerchantNotFoundError") /\ UNCHANGED fee
       ELSE IF req[p].amount <= 0
       THEN Fail(p, "InvalidTransfer", "InvalidTransferError(amount)") /\ UNCHANGED fee
       ELSE /\ fee' = [fee EXCEPT ![p] = calculate_fee(req[p].amount)]
            /\ Goto(p, "debit")
            /\ UNCHANGED <<merchants, balances, transfers, idem, tx, outcome, cause, result,
                           initial>>

\* Mutant: the amount is tested before from_merchant == to_merchant.
CheckToAmountFirst(p) ==
    /\ pc[p] = "check_to"
    /\ UNCHANGED <<nextId, clock, req>>
    /\ IF ~MerchantExists(req[p].to_merchant)
       THEN Fail(p, "MerchantNotFound", "MerchantNotFoundError") /\ UNCHANGED fee
       ELSE IF req[p].amount <= 0
       THEN Fail(p, "InvalidTransfer", "InvalidTransferError(amount)") /\ UNCHANGED fee
       ELSE IF req[p].from_merchant = req[p].to_merchant
       THEN Fail(p, "InvalidTransfer", "InvalidTransferError(same merchant)")
            /\ UNCHANGED fee
       ELSE /\ fee' = [fee EXCEPT ![p] = calculate_fee(req[p].amount)]
            /\ Goto(p, "debit")
            /\ UNCHANGED <<merchants, balances, transfers, idem, tx, outcome, cause, result,
                           initial>>

\* Mutant: the use case credits the recipient without having debited the sender.
CheckToCreditFirst(p) ==
    /\ pc[p] = "check_to"
    /\ UNCHANGED <<nextId, clock, req>>
    /\ IF ~MerchantExists(req[p].to_merchant)
       THEN Fail(p, "MerchantNotFound", "MerchantNotFoundError") /\ UNCHANGED fee
       ELSE IF req[p].from_merchant = req[p].to_merchant
       THEN Fail(p, "InvalidTransfer", "InvalidTransferError(same merchant)") /\ UNCHANGED fee
       ELSE IF req[p].amount <= 0
       THEN Fail(p, "InvalidTransfer", "InvalidTransferError(amount)") /\ UNCHANGED fee
       ELSE /\ fee' = [fee EXCEPT ![p] = calculate_fee(req[p].amount)]
            /\ Goto(p, "credit_select")
            /\ UNCHANGED <<merchants, balances, transfers, idem, tx, outcome, cause, result,
                           initial>>

\* merchant_repo.get_by_name(to_merchant), the same-merchant and amount tests,
\* and the fee.
CheckTo(p) ==
    /\ pc[p] = "check_to"
    /\ UNCHANGED <<nextId, clock, req>>
    /\ IF ~MerchantExists(req[p].to_merchant)
       THEN Fail(p, "MerchantNotFound", "MerchantNotFoundError") /\ UNCHANGED fee
       ELSE IF req[p].from_merchant = req[p].to_merchant
       THEN Fail(p, "InvalidTransfer", "InvalidTransferError(same merchant)") /\ UNCHANGED fee
       ELSE IF req[p].amount <= 0
       THEN Fail(p, "InvalidTransfer", "InvalidTransferError(amount)") /\ UNCHANGED fee
       ELSE /\ fee' = [fee EXCEPT ![p] = calculate_fee(req[p].amount)]
            /\ Goto(p, "debit")
            /\ UNCHANGED <<merchants, balances, transfers, idem, tx, outcome, cause, result,
                           initial>>

\* Mutant: the fee is left out of the quantity tested and taken.
total_debit_without_fee(p) == req[p].amount

\* amount + fee, the quantity taken from the sender.
total_debit(p) == req[p].amount + fee[p]

\* Mutant: a post-hoc check.  The new amount is written to the row before the
\* test, and the refusal leaves it there.
DebitPostHocCheck(p) ==
    LET m == req[p].from_merchant
        c == req[p].currency
        rows == BalanceRows(m, c)
    IN  /\ pc[p] = "debit"
        /\ UNCHANGED <<nextId, clock, req, fee>>
        /\ IF rows = {}
           THEN Fail(p, "InsufficientFunds", "InsufficientFundsError")
           ELSE /\ CanLock(p, m, c)
                /\ \E b \in rows :
                      IF Insufficient(b.amount, total_debit(p))
                      THEN /\ balances' = (balances \ {b}) \cup
                                  {[b EXCEPT !.amount = Stored(b.amount - total_debit(p))]}
                           /\ tx' = Rollback(p)
                           /\ Goto(p, "done")
                           /\ outcome' = [outcome EXCEPT ![p] = "InsufficientFunds"]
                           /\ cause' = [cause EXCEPT ![p] = "InsufficientFundsError"]
                           /\ UNCHANGED <<merchants, transfers, idem, initial, result>>
                      ELSE /\ tx' = [tx EXCEPT ![p].locks = @ \cup {<<m, c>>},
                                               ![p].bupd = WithUpdate(p, b,
                                                  Stored(b.amount - total_debit(p)))]
                           /\ Goto(p, "credit_select")
                           /\ UNCHANGED <<merchants, balances, transfers, idem, outcome,
                                          cause, result, initial>>

\* Mutant: the ValueError of a sender without a row is not turned into
\* InsufficientFundsError.
DebitNoBalanceSurfaces(p) ==
    LET m == req[p].from_merchant
        c == req[p].currency
        rows == BalanceRows(m, c)
    IN  /\ pc[p] = "debit"
        /\ UNCHANGED <<nextId, clock, req, fee>>
        /\ IF rows = {}
           THEN Fail(p, "InvalidRequest", "ValueError")
           ELSE /\ CanLock(p, m, c)
                /\ \E b \in rows :
                      IF Insufficient(OwnView(p, b).amount, total_debit(p))
                      THEN Fail(p, "InsufficientFunds", "InsufficientFundsError")
                      ELSE /\ tx' = [tx EXCEPT ![p].locks = @ \cup {<<m, c>>},
                                               ![p].bupd = WithUpdate(p, b,
                                                  Stored(OwnView(p, b).amount
                                                         - total_debit(p)))]
                           /\ Goto(p, "credit_select")
                           /\ UNCHANGED <<merchants, balances, transfers, idem, outcome, cause,
                                          result, initial>>

\* balance_repo.subtract_amount(from_merchant, currency, total_debit): lock the
\* row, test, write.  Both ValueErrors become InsufficientFundsError.
Debit(p) ==
    LET m == req[p].from_merchant
        c == req[p].currency
        rows == BalanceRows(m, c)
    IN  /\ pc[p] = "debit"
        /\ UNCHANGED <<nextId, clock, req, fee>>
        /\ IF rows = {}
           THEN Fail(p, "InsufficientFunds", "InsufficientFundsError")
           ELSE /\ CanLock(p, m, c)
                /\ \E b \in rows :
                      IF Insufficient(OwnView(p, b).amount, total_debit(p))
                      THEN Fail(p, "InsufficientFunds", "InsufficientFundsError")
                      ELSE /\ tx' = [tx EXCEPT ![p].locks = @ \cup {<<m, c>>},
                                               ![p].bupd = WithUpdate(p, b,
                                                  Stored(OwnView(p, b).amount
                                                         - total_debit(p)))]
                           /\ Goto(p, "credit_select")
                           /\ UNCHANGED <<merchants, balances, transfers, idem, outcome, cause,
                                          result, initial>>

\* Where the caller of add_amount goes on: the transfer use case builds its
\* Transfer, a direct caller commits its session.
AfterCredit(p) == IF req[p].kind = "transfer" THEN "transfer_insert" ELSE "credit_commit"

\* add_amount raised ValueError("Balance cannot be negative"): the transfer use
\* case turns it into InsufficientFundsError, a direct caller sees the ValueError.
CreditRefused(p) ==
    IF req[p].kind = "transfer"
    THEN Fail(p, "InsufficientFunds", "InsufficientFundsError")
    ELSE Fail(p, "InvalidAmount", "ValueError(negative)")

\* balance_repo.add_amount(to_merchant, currency, amount), existing row: lock it,
\* test new_amount < 0, add; no row: go on to insert one.
CreditSelect(p) ==
    LET m == req[p].to_merchant
        c == req[p].currency
        rows == BalanceRows(m, c)
    IN  /\ pc[p] = "credit_select"
        /\ UNCHANGED <<nextId, clock, req, fee>>
        /\ IF rows = {}
           THEN /\ Goto(p, "credit_insert")
                /\ UNCHANGED <<merchants, balances, transfers, idem, tx, outcome, cause,
                               result, initial>>
           ELSE /\ CanLock(p, m, c)
                /\ \E b \in rows :
                      IF OwnView(p, b).amount + req[p].amount < 0
                      THEN CreditRefused(p)
                      ELSE /\ tx' = [tx EXCEPT ![p].locks = @ \cup {<<m, c>>},
                                               ![p].bupd = WithUpdate(p, b,
                                                  Stored(OwnView(p, b).amount
                                                         + req[p].amount))]
                           /\ Goto(p, AfterCredit(p))
                           /\ UNCHANGED <<merchants, balances, transfers, idem, outcome, cause,
                                          result, initial>>

\* Another session has flushed, and not yet committed, an insert of row (m, c).
BalanceInsertPending(p, m, c) ==
    \E q \in Reqs \ {p} : \E b \in tx[q].bins : b.merchant_name = m /\ b.currency = c

\* Mutant: idx_merchant_currency is not unique.
BalanceKeyTakenNever(m, c) == FALSE

\* The unique index idx_merchant_currency refuses a second row for (m, c).
BalanceKeyTaken(m, c) == BalanceRows(m, c) # {}

\* balance_repo.add_amount, no row found: amount < 0 raises, otherwise INSERT a
\* row holding amount.
CreditInsert(p) ==
    LET m == req[p].to_merchant
        c == req[p].currency
    IN  /\ pc[p] = "credit_insert"
        /\ UNCHANGED <<nextId, clock, req, fee>>
        /\ IF req[p].amount < 0
           THEN CreditRefused(p)
           ELSE /\ ~BalanceInsertPending(p, m, c)
                /\ IF BalanceKeyTaken(m, c)
                   THEN Fail(p, "InternalError", "IntegrityError(balances)")
                   ELSE /\ tx' = [tx EXCEPT ![p].bins = @ \cup
                                    {[merchant_name |-> m, currency |-> c,
                                      amount |-> Stored(req[p].amount), rid |-> p]}]
                        /\ Goto(p, AfterCredit(p))
                        /\ UNCHANGED <<merchants, balances, transfers, idem, outcome, cause,
                                       result, initial>>

\* Another session has flushed, and not yet committed, a transfer with key k.
TransferInsertPending(p, k) ==
    \E q \in Reqs \ {p} : \E t \in tx[q].tins : t.idempotency_key = k

\* The unique index on transfers.idempotency_key refuses a second row for k.
TransferKeyTaken(k) == KeyTaken(transfers, k)

\* Transfer.__post_init__: what the entity demands of its fields.
TransferEntityValid(t) ==
    /\ t.amount > 0
    /\ t.fee >= 0
    /\ t.idempotency_key # EmptyKey
    /\ t.from_merchant # t.to_merchant

\* transfer_repo.create(Transfer(..., created_at = utcnow())): the use case builds
\* the entity from what was asked, which raises ValueError when the fields do
\* not satisfy it; then INSERT the row; the id comes from the sequence, which a
\* failed insert consumes too.  The row is read back and made a Transfer entity
\* again, which raises ValueError when the stored values do not satisfy it.
TransferInsert(p) ==
    LET k == req[p].idempotency_key
        row(now) == [id |-> nextId,
                     from_merchant |-> req[p].from_merchant,
                     to_merchant |-> req[p].to_merchant,
                     currency |-> req[p].currency,
                     amount |-> Stored(req[p].amount),
                     fee |-> Stored(fee[p]),
                     idempotency_key |-> k,
                     created_at |-> now]
        asked == [row(clock) EXCEPT !.amount = req[p].amount, !.fee = fee[p]]
    IN  /\ pc[p] = "transfer_insert"
        /\ UNCHANGED <<req, fee>>
        /\ IF ~TransferEntityValid(asked)
           THEN Fail(p, "InvalidRequest", "ValueError") /\ UNCHANGED <<nextId, clock>>
           ELSE /\ ~TransferInsertPending(p, k)
                /\ nextId' = nextId + 1
                /\ IF TransferKeyTaken(k)
                   THEN Fail(p, "InternalError", "IntegrityError(transfers)")
                        /\ UNCHANGED clock
                   ELSE \E now \in {clock, clock + 1} :
                           /\ clock' = now
                           /\ IF ~TransferEntityValid(row(now))
                              THEN Fail(p, "InvalidRequest", "ValueError")
                              ELSE /\ tx' = [tx EXCEPT ![p].tins = @ \cup {row(now)}]
                                   /\ Goto(p, "idem_store")
                                   /\ UNCHANGED <<merchants, balances, transfers, idem,
                                                  outcome, cause, result, initial>>

\* Another session has flushed, and not yet committed, a record for key k.
IdemInsertPending(p, k) ==
    \E q \in Reqs \ {p} : \E i \in tx[q].kins : i.idempotency_key = k

\* The unique index on idempotency_keys.idempotency_key refuses a second row for k.
IdemKeyTaken(k) == KeyTaken(idem, k)

\* The response snapshot: id and created_at of the transfer row read back, the
\* other fields from the call's arguments and its fee.
response_data(p, t) ==
    [transfer_id |-> t.id, from_merchant |-> req[p].from_merchant,
     to_merchant |-> req[p].to_merchant, currency |-> req[p].currency,
     amount |-> req[p].amount, fee |-> fee[p], created_at |-> t.created_at]

\* idempotency_repo.store(idempotency_key, transfer.id, response_data).
IdemStore(p) ==
    LET k == req[p].idempotency_key
    IN  /\ pc[p] = "idem_store"
        /\ ~IdemInsertPending(p, k)
        /\ UNCHANGED <<nextId, clock, req, fee>>
        /\ IF IdemKeyTaken(k)
           THEN Fail(p, "InternalError", "IntegrityError(idempotency_keys)")
           ELSE /\ \E t \in tx[p].tins :
                      tx' = [tx EXCEPT ![p].kins = @ \cup
                               {[idempotency_key |-> k, transfer_id |-> t.id,
                                 response_data |-> response_data(p, t)]}]
                /\ Goto(p, "commit")
                /\ UNCHANGED <<merchants, balances, transfers, idem, outcome, cause, result,
                               initial>>

\* Mutant: the commit replaces the rows of transfers by the session's own.
CommitTransferOverwrites(p) ==
    /\ pc[p] = "commit"
    /\ balances' = CommittedBalances(p)
    /\ transfers' = tx[p].tins
    /\ idem' = idem \cup tx[p].kins
    /\ tx' = [tx EXCEPT ![p] = EmptyTx]
    /\ \E i \in tx[p].kins :
          result' = [result EXCEPT ![p] = [kind |-> "transfer",
                                           snapshot |-> i.response_data,
                                           is_duplicate |-> FALSE]]
    /\ outcome' = [outcome EXCEPT ![p] = "ok"]
    /\ Goto(p, "done")
    /\ UNCHANGED <<merchants, nextId, clock, req, fee, cause, initial>>

\* The handler returns response_data with is_duplicate = False and get_db
\* commits the session.
CommitTransfer(p) ==
    /\ pc[p] = "commit"
    /\ balances' = CommittedBalances(p)
    /\ transfers' = transfers \cup tx[p].tins
    /\ idem' = idem \cup tx[p].kins
    /\ tx' = [tx EXCEPT ![p] = EmptyTx]
    /\ \E i \in tx[p].kins :
          result' = [result EXCEPT ![p] = [kind |-> "transfer",
                                           snapshot |-> i.response_data,
                                           is_duplicate |-> FALSE]]
    /\ outcome' = [outcome EXCEPT ![p] = "ok"]
    /\ Goto(p, "done")
    /\ UNCHANGED <<merchants, nextId, clock, req, fee, cause, initial>>

\* ------------------------------------------------- POST /merchants

\* A caller sends a create-merchant request.
StartCreate(p) ==
    /\ MayStart(p)
    /\ \E n \in Names, c \in Currencies, a \in InitialBalances :
          req' = [req EXCEPT ![p] = [kind |-> "create", merchant_name |-> n,
                                     currency |-> c, initial_balance |-> a]]
    /\ Goto(p, "cm_check")
    /\ UNCHANGED <<merchants, balances, transfers, idem, nextId, clock, tx, fee,
                   outcome, cause, result, initial>>

\* Mutant: the use case does not look the name up before it inserts.
CmCheckNoLookup(p) ==
    /\ pc[p] = "cm_check"
    /\ UNCHANGED <<nextId, clock, req, fee>>
    /\ IF req[p].initial_balance < 0
       THEN Fail(p, "InvalidAmount", "ValueError")
       ELSE /\ Goto(p, "cm_insert_merchant")
            /\ UNCHANGED <<merchants, balances, transfers, idem, tx, outcome, cause, result,
                           initial>>

\* CreateMerchantUseCase.execute: the initial_balance test and the lookup by name.
CmCheck(p) ==
    /\ pc[p] = "cm_check"
    /\ UNCHANGED <<nextId, clock, req, fee>>
    /\ IF req[p].initial_balance < 0
       THEN Fail(p, "InvalidAmount", "ValueError")
       ELSE IF MerchantExists(req[p].merchant_name)
       THEN Fail(p, "AlreadyExists", "ValueError")
       ELSE /\ Goto(p, "cm_insert_merchant")
            /\ UNCHANGED <<merchants, balances, transfers, idem, tx, outcome, cause, result,
                           initial>>

\* Another session has flushed, and not yet committed, a merchant named n.
MerchantInsertPending(p, n) ==
    \E q \in Reqs \ {p} : \E m \in tx[q].mins : m.name = n

\* Mutant: merchants.name carries no unique index.
MerchantNameTakenNever(n) == FALSE

\* The unique index on merchants.name refuses a second row for n.
MerchantNameTaken(n) == MerchantExists(n)

\* Mutant: merchant_repo.create commits the merchant row where it flushes it.
CmInsertMerchantCommits(p) ==
    LET n == req[p].merchant_name
    IN  /\ pc[p] = "cm_insert_merchant"
        /\ ~MerchantInsertPending(p, n)
        /\ UNCHANGED <<nextId, clock, req, fee>>
        /\ IF MerchantNameTaken(n)
           THEN Fail(p, "InternalError", "IntegrityError(merchants)")
           ELSE /\ merchants' = merchants \cup {[name |-> n, rid |-> p]}
                /\ Goto(p, IF req[p].initial_balance > 0 THEN "cm_insert_balance"
                                                         ELSE "cm_commit")
                /\ UNCHANGED <<balances, transfers, idem, tx, outcome, cause, result,
                               initial>>

\* merchant_repo.create(merchant): INSERT the merchant row.
CmInsertMerchant(p) ==
    LET n == req[p].merchant_name
    IN  /\ pc[p] = "cm_insert_merchant"
        /\ ~MerchantInsertPending(p, n)
        /\ UNCHANGED <<nextId, clock, req, fee>>
        /\ IF MerchantNameTaken(n)
           THEN Fail(p, "InternalError", "IntegrityError(merchants)")
           ELSE /\ tx' = [tx EXCEPT ![p].mins = @ \cup {[name |-> n, rid |-> p]}]
                /\ Goto(p, IF req[p].initial_balance > 0 THEN "cm_insert_balance"
                                                         ELSE "cm_commit")
                /\ UNCHANGED <<merchants, balances, transfers, idem, outcome, cause, result,
                               initial>>

\* Balance.__post_init__: what the entity demands of its fields.
BalanceEntityValid(c, amount) == amount >= 0 /\ c # EmptyCurrency

\* balance_repo.create(Balance(...)), when initial_balance > 0: the entity is
\* built, which raises ValueError when the fields do not satisfy it; then
\* INSERT the balance row.
CmInsertBalance(p) ==
    LET n == req[p].merchant_name
        c == req[p].currency
    IN  /\ pc[p] = "cm_insert_balance"
        /\ UNCHANGED <<nextId, clock, req, fee>>
        /\ IF ~BalanceEntityValid(c, req[p].initial_balance)
           THEN Fail(p, "InvalidRequest", "ValueError(balance)")
           ELSE /\ ~BalanceInsertPending(p, n, c)
                /\ IF BalanceKeyTaken(n, c)
                   THEN Fail(p, "InternalError", "IntegrityError(balances)")
                   ELSE /\ tx' = [tx EXCEPT ![p].bins = @ \cup
                                    {[merchant_name |-> n, currency |-> c,
                                      amount |-> Stored(req[p].initial_balance),
                                      rid |-> p]}]
                        /\ Goto(p, "cm_commit")
                        /\ UNCHANGED <<merchants, balances, transfers, idem, outcome, cause,
                                       result, initial>>

\* The handler reads the merchant back (GetMerchantUseCase, in the same
\* session), returns it, and get_db commits.
CommitCreate(p) ==
    /\ pc[p] = "cm_commit"
    /\ merchants' = merchants \cup tx[p].mins
    /\ balances' = CommittedBalances(p)
    /\ initial' = [r \in Rows |->
                     IF \E b \in tx[p].bins : <<b.merchant_name, b.currency>> = r
                     THEN initial[r] + req[p].initial_balance
                     ELSE initial[r]]
    /\ tx' = [tx EXCEPT ![p] = EmptyTx]
    /\ result' = [result EXCEPT ![p] =
                    [kind |-> "merchant", merchant_name |-> req[p].merchant_name,
                     balances |-> {[currency |-> b.currency, amount |-> b.amount] :
                                      b \in tx[p].bins}]]
    /\ outcome' = [outcome EXCEPT ![p] = "ok"]
    /\ Goto(p, "done")
    /\ UNCHANGED <<transfers, idem, nextId, clock, req, fee, cause>>

\* ------------------------------------------------------ faults

\* The session has flushed a write or holds a lock.
InFlight(p) == pc[p] \notin {"idle", "done"} /\ tx[p] # EmptyTx

\* Mutant: get_db commits in its finally clause, so an abandoned session's
\* flushed writes are committed.
AbandonCommits(p) ==
    /\ InFlight(p)
    /\ balances' = CommittedBalances(p)
    /\ transfers' = transfers \cup tx[p].tins
    /\ idem' = idem \cup tx[p].kins
    /\ merchants' = merchants \cup tx[p].mins
    /\ tx' = [tx EXCEPT ![p] = EmptyTx]
    /\ Goto(p, "done")
    /\ outcome' = [outcome EXCEPT ![p] = "Abandoned"]
    /\ cause' = [cause EXCEPT ![p] = "CancelledError"]
    /\ UNCHANGED <<nextId, clock, req, fee, result, initial>>

\* The request is cancelled, or the connection fails, at an await after its
\* first write: get_db rolls the session back.
Abandon(p) ==
    /\ InFlight(p)
    /\ Fail(p, "Abandoned", "CancelledError")
    /\ UNCHANGED <<nextId, clock, req, fee>>

\* The sessions p waits for: the holder of the row lock it asks for.
WaitsFor(p) ==
    LET row == IF pc[p] = "debit" THEN <<req[p].from_merchant, req[p].currency>>
               ELSE <<req[p].to_merchant, req[p].currency>>
    IN  IF pc[p] \in {"debit", "credit_select"} /\ BalanceRows(row[1], row[2]) # {}
        THEN {q \in Reqs \ {p} : row \in tx[q].locks}
        ELSE {}

RECURSIVE WaitClosure(_, _)
WaitClosure(S, n) ==
    IF n = 0 THEN S ELSE WaitClosure(S \cup UNION {WaitsFor(q) : q \in S}, n - 1)

\* PostgreSQL's deadlock detector finds p in a cycle of lock waits.
Deadlocked(p) == p \in WaitClosure(WaitsFor(p), NumReqs)

\* The detector aborts p's statement: the handler answers 500 and rolls back.
DeadlockAbort(p) ==
    /\ Deadlocked(p)
    /\ Fail(p, "InternalError", "DeadlockDetected")
    /\ UNCHANGED <<nextId, clock, req, fee>>

\* ------------------------------------------------------------ Next, Spec

Next ==
    \E p \in Reqs :
        \/ StartTransfer(p)
        \/ RouteProbe(p)
        \/ UcProbe(p)
        \/ CheckFrom(p)
        \/ CheckTo(p)
        \/ Debit(p)
        \/ CreditSelect(p)
        \/ CreditInsert(p)
        \/ TransferInsert(p)
        \/ IdemStore(p)
        \/ CommitTransfer(p)
        \/ StartCreate(p)
        \/ CmCheck(p)
        \/ CmInsertMerchant(p)
        \/ CmInsertBalance(p)
        \/ CommitCreate(p)
        \/ Abandon(p)
        \/ DeadlockAbort(p)

Spec == Init /\ [][Next]_vars

\* ------------------------------------------- a burst of transfers

\* Amounts of a burst, chosen so that a balance of 1.0 covers all, two or one
\* of the requests; 5 is 0.000000005.
BurstAmounts == {5, 50000, 499500000, 999000000}

\* NumReqs concurrent transfers of one amount from alice to bob, each with its
\* own idempotency key, and nothing else running.
InitBurst ==
    \E ba \in {0, 1000000000}, bb \in {0, 1000000000}, a \in BurstAmounts :
        /\ merchants = {[name |-> n, rid |-> 0] : n \in Names}
        /\ balances = {[merchant_name |-> "alice", currency |-> "BTC", amount |-> ba,
                         rid |-> 0] : x \in {y \in {ba} : y > 0}}
                       \cup {[merchant_name |-> "bob", currency |-> "BTC", amount |-> bb,
                               rid |-> 0] : x \in {y \in {bb} : y > 0}}
        /\ initial = [r \in Rows |-> IF r = <<"alice", "BTC">> THEN ba
                                      ELSE IF r = <<"bob", "BTC">> THEN bb ELSE 0]
        /\ transfers = {}
        /\ idem = {}
        /\ nextId = 1
        /\ clock = 0
        /\ req = [p \in Reqs |-> [kind |-> "transfer", from_merchant |-> "alice",
                                   to_merchant |-> "bob", currency |-> "BTC",
                                   amount |-> a, idempotency_key |-> p]]
        /\ pc = [p \in Reqs |-> "route_probe"]
        /\ tx = [p \in Reqs |-> EmptyTx]
        /\ fee = [p \in Reqs |-> 0]
        /\ outcome = [p \in Reqs |-> "none"]
        /\ cause = [p \in Reqs |-> "none"]
        /\ result = [p \in Reqs |-> NoResult]

NextBurst ==
    \E p \in Reqs :
        \/ RouteProbe(p)
        \/ UcProbe(p)
        \/ CheckFrom(p)
        \/ CheckTo(p)
        \/ Debit(p)
        \/ CreditSelect(p)
        \/ CreditInsert(p)
        \/ TransferInsert(p)
        \/ IdemStore(p)
        \/ CommitTransfer(p)

SpecBurst == InitBurst /\ [][NextBurst]_vars

\* ------------------------------------------------------------ properties

RECURSIVE SumAmount(_)
\* The sum of the amount column over a set of rows.
SumAmount(S) ==
    IF S = {} THEN 0
    ELSE LET x == CHOOSE y \in S : TRUE IN x.amount + SumAmount(S \ {x})

RECURSIVE SumDebit(_)
\* The sum of amount + fee over a set of transfer rows.
SumDebit(S) ==
    IF S = {} THEN 0
    ELSE LET x == CHOOSE y \in S : TRUE IN x.amount + x.fee + SumDebit(S \ {x})

\* The committed balance of (m, c); no row counts as 0.
BalanceOf(m, c) == SumAmount(BalanceRows(m, c))

TransfersTo(m, c) == {t \in transfers : t.to_merchant = m /\ t.currency = c}

TransfersFrom(m, c) == {t \in transfers : t.from_merchant = m /\ t.currency = c}

IsTransfer(p) == req[p].kind = "transfer"

\* C1: every balance row has amount >= 0 in every reachable state, committed
\* or flushed by an open transaction: the test is made before the new value
\* is written, so no intermediate state holds a negative amount either.
C1_NonNegative ==
    /\ \A b \in balances : b.amount >= 0
    /\ \A p \in Reqs : \A u \in tx[p].bupd \cup tx[p].bins : u.amount >= 0

\* A debit was refused for a sender that an earlier committed transfer drained.
C1_Witness ==
    \E p \in Reqs :
        /\ IsTransfer(p)
        /\ outcome[p] = "InsufficientFunds"
        /\ TransfersFrom(req[p].from_merchant, req[p].currency) # {}

\* What one add_amount(amount) adds to a stored balance.
CreditEffect(amount) == Stored(amount)

\* What one subtract_amount(total) takes from a stored balance that covers it.
DebitEffect(total) ==
    LET x == ColumnUnit * (total \div ColumnUnit + 1) IN x - Stored(x - total)

\* What the transfer recorded for key k did to the balance of row r: one credit
\* of its amount, one debit of its amount + fee; nothing when k has no record.
KeyDelta(k, r) ==
    IF StoredResponses(k) = {} THEN 0
    ELSE LET d == (CHOOSE i \in StoredResponses(k) : TRUE).response_data
         IN  (IF <<d.to_merchant, d.currency>> = r THEN CreditEffect(d.amount) ELSE 0)
             - (IF <<d.from_merchant, d.currency>> = r
                THEN DebitEffect(d.amount + d.fee) ELSE 0)

RECURSIVE SumKeyDelta(_, _)
SumKeyDelta(K, r) ==
    IF K = {} THEN 0
    ELSE LET k == CHOOSE j \in K : TRUE IN KeyDelta(k, r) + SumKeyDelta(K \ {k}, r)

C3_SameSnapshot ==
    \A p \in Reqs, q \in Reqs :
        (/\ IsTransfer(p) /\ IsTransfer(q)
         /\ req[p].idempotency_key = req[q].idempotency_key
         /\ outcome[p] = "ok" /\ outcome[q] = "ok")
        => /\ result[p].snapshot = result[q].snapshot
           /\ Cardinality({t \in transfers :
                              t.idempotency_key = req[p].idempotency_key}) = 1

\* A probe that finds a committed record for the key ends the call with the
\* stored snapshot and changes nothing in the store.
C3_ReplayStep ==
    \A p \in Reqs :
        (/\ IsTransfer(p)
         /\ pc[p] \in {"route_probe", "uc_probe"}
         /\ \E i \in idem : i.idempotency_key = req[p].idempotency_key
         /\ pc'[p] # pc[p])
        => /\ pc'[p] = "done"
           /\ outcome'[p] = "ok"
           /\ \E i \in idem : /\ i.idempotency_key = req[p].idempotency_key
                              /\ result'[p].snapshot = i.response_data
           /\ UNCHANGED db

\* C3: a call with a key whose first call committed returns the first call's
\* snapshot (transfer_id, from, to, currency, amount, fee, created_at),
\* whatever its payload; afterwards exactly one Transfer record exists for the
\* key and the balances are as the first call left them.
C3_Idempotent == [](C3_SameSnapshot) /\ [][C3_ReplayStep]_vars

\* A second call with another payload got the first call's snapshot.
C3_Witness ==
    \E p \in Reqs, q \in Reqs :
        /\ p # q /\ IsTransfer(p) /\ IsTransfer(q)
        /\ req[p].idempotency_key = req[q].idempotency_key
        /\ req[p] # req[q]
        /\ outcome[p] = "ok" /\ ~result[p].is_duplicate
        /\ outcome[q] = "ok" /\ result[q].is_duplicate
        /\ result[p].snapshot = result[q].snapshot

\* The request missed the probe and its insert hit the unique index on the key.
LostRace(p) ==
    cause[p] \in {"IntegrityError(transfers)", "IntegrityError(idempotency_keys)"}

\* C4: of two concurrent requests with one key that both missed the probe, the
\* one that loses surfaces no error: it ends with the winner's stored snapshot,
\* so both callers receive the identical result.
C4_LoserGetsSnapshot ==
    \A p \in Reqs, q \in Reqs :
        (/\ p # q /\ IsTransfer(p) /\ IsTransfer(q)
         /\ req[p].idempotency_key = req[q].idempotency_key
         /\ outcome[q] = "ok" /\ ~result[q].is_duplicate
         /\ pc[p] = "done" /\ LostRace(p))
        => /\ outcome[p] = "ok"
           /\ result[p].snapshot = result[q].snapshot

\* C5: no lost updates: in every committed state each (merchant, currency)
\* balance equals the initial balance given at creation plus the sum of amount
\* over the committed transfers to it minus the sum of amount + fee over the
\* committed transfers from it.
C5_NoLostUpdates ==
    \A r \in Rows :
        BalanceOf(r[1], r[2]) =
            initial[r] + SumAmount(TransfersTo(r[1], r[2]))
                       - SumDebit(TransfersFrom(r[1], r[2]))

\* C6: when NumReqs concurrent transfers of one amount from one sender with
\* balance B, each with its own key, have all finished, exactly
\* min(NumReqs, floor(B / (amount + fee))) of them succeeded, every other one
\* was refused with InsufficientFunds, and the sender's balance is
\* B - successes * (amount + fee).
C6_BurstOutcome ==
    (\A p \in Reqs : pc[p] = "done")
    => LET B == initial[<<"alice", "BTC">>]
           total == req[1].amount + calculate_fee(req[1].amount)
           successes == Cardinality({p \in Reqs : outcome[p] = "ok"})
           affordable == B \div total
       IN  /\ successes = IF NumReqs < affordable THEN NumReqs ELSE affordable
           /\ \A p \in Reqs : outcome[p] \in {"ok", "InsufficientFunds"}
           /\ BalanceOf("alice", "BTC") = B - successes * total

\* The commit of a transfer moves the sender's balance down by
\* amount + calculate_fee(amount) and the recipient's up by amount.
C7_CommitStep ==
    \A p \in Reqs :
        (IsTransfer(p) /\ pc[p] = "commit" /\ pc'[p] = "done" /\ outcome'[p] = "ok")
        => LET f == req[p].from_merchant
               t == req[p].to_merchant
               c == req[p].currency
               a == req[p].amount
           IN  /\ SumAmount({b \in balances' : b.merchant_name = f /\ b.currency = c})
                    = BalanceOf(f, c) - (a + calculate_fee(a))
               /\ SumAmount({b \in balances' : b.merchant_name = t /\ b.currency = c})
                    = BalanceOf(t, c) + a

\* C7: a successful transfer decreases the (from, currency) balance by exactly
\* amount + fee, fee = calculate_fee(amount), and increases the (to, currency)
\* balance by exactly amount: the recipient is not charged the fee.
C7_DoubleEntry == [][C7_CommitStep]_vars

\* The step that refuses a transfer with InsufficientFunds leaves the store as
\* it was and the refused session without writes or locks.
C8_InsufficientStep ==
    \A p \in Reqs :
        (IsTransfer(p) /\ outcome[p] = "none" /\ outcome'[p] = "InsufficientFunds")
        => /\ UNCHANGED db
           /\ tx'[p] = EmptyTx
           /\ pc'[p] = "done"

\* C8: when a transfer fails with InsufficientFunds no state changes: the
\* balances are unchanged and the request creates no Transfer record and
\* stores no IdempotencyRecord.
C8_NoEffect == [][C8_InsufficientStep]_vars

\* A transfer was refused with InsufficientFunds and nothing was recorded.
C8_Witness ==
    \E p \in Reqs :
        /\ IsTransfer(p) /\ outcome[p] = "InsufficientFunds"
        /\ transfers = {} /\ idem = {}
        /\ \A r \in Rows : BalanceOf(r[1], r[2]) = initial[r]

\* C9: in every committed state each key has its Transfer record and its
\* IdempotencyRecord together or neither, the balances carry the debit and the
\* credit of exactly the keys that have them, and a finished request holds no
\* write and no lock: a failure after the debit undoes debit and credit.
C9_AllOrNothing ==
    /\ \A k \in Keys :
          (\E t \in transfers : t.idempotency_key = k)
              <=> (\E i \in idem : i.idempotency_key = k)
    /\ \A r \in Rows :
          BalanceOf(r[1], r[2]) - initial[r] =
              SumKeyDelta({k \in Keys : \E t \in transfers : t.idempotency_key = k}, r)
    /\ \A p \in Reqs : pc[p] = "done" => tx[p] = EmptyTx

\* A request failed after its debit, its credit and its Transfer insert were
\* flushed, and the store holds none of them.
C9_Witness ==
    \E p \in Reqs :
        /\ IsTransfer(p) /\ outcome[p] = "Abandoned"
        /\ nextId = 2 /\ transfers = {} /\ idem = {}
        /\ \A q \in Reqs \ {p} : pc[q] = "idle"
        /\ \A r \in Rows : BalanceOf(r[1], r[2]) = initial[r]

\* The validation steps: a missing sender or recipient is answered
\* MerchantNotFound, from = to and amount <= 0 are answered InvalidTransfer,
\* and a rejecting step leaves the store as it was.
C10_ValidationStep ==
    \A p \in Reqs :
        (IsTransfer(p) /\ pc[p] \in {"check_from", "check_to"} /\ pc'[p] # pc[p])
        => LET fromMissing == /\ pc[p] = "check_from"
                              /\ ~\E m \in merchants : m.name = req[p].from_merchant
               toMissing == /\ pc[p] = "check_to"
                            /\ ~\E m \in merchants : m.name = req[p].to_merchant
               same == /\ pc[p] = "check_to" /\ ~toMissing
                       /\ req[p].from_merchant = req[p].to_merchant
               nonPositive == /\ pc[p] = "check_to" /\ ~toMissing /\ ~same
                              /\ req[p].amount <= 0
           IN  /\ (fromMissing \/ toMissing) => outcome'[p] = "MerchantNotFound"
               /\ (same \/ nonPositive) => outcome'[p] = "InvalidTransfer"
               /\ (fromMissing \/ toMissing \/ same \/ nonPositive)
                     => /\ pc'[p] = "done"
                        /\ tx'[p] = EmptyTx
                        /\ UNCHANGED db
               /\ ~(fromMissing \/ toMissing \/ same \/ nonPositive)
                     => outcome'[p] = "none"

\* C10: with no stored record for the key, a transfer fails with
\* MerchantNotFound when the sender or the recipient does not exist, with
\* InvalidTransfer when from = to, and with InvalidTransfer when amount <= 0;
\* in each case no balance, Transfer record or IdempotencyRecord is changed or
\* created.
C10_ValidationRejects == [][C10_ValidationStep]_vars

\* Both InvalidTransfer rejections happened (from = to, and amount <= 0) and
\* the store is untouched.
C10_Witness ==
    \E p \in Reqs, q \in Reqs :
        /\ IsTransfer(p) /\ IsTransfer(q)
        /\ outcome[p] = "InvalidTransfer" /\ req[p].from_merchant = req[p].to_merchant
        /\ outcome[q] = "InvalidTransfer" /\ req[q].from_merchant # req[q].to_merchant
        /\ req[q].amount <= 0
        /\ transfers = {} /\ idem = {}

\* The payload of p is one the later steps would refuse: a merchant that does
\* not exist, from = to, amount <= 0, or a sender whose balance does not cover
\* amount + fee.
WouldBeRefused(p) ==
    \/ ~MerchantExists(req[p].from_merchant)
    \/ ~MerchantExists(req[p].to_merchant)
    \/ req[p].from_merchant = req[p].to_merchant
    \/ req[p].amount <= 0
    \/ BalanceOf(req[p].from_merchant, req[p].currency)
          < req[p].amount + calculate_fee(req[p].amount)

\* Nothing precedes the probe: a request at a probe has computed no fee, holds
\* no lock and no write, and has been told nothing.
C11_ProbeFirst ==
    \A p \in Reqs :
        pc[p] \in {"route_probe", "uc_probe"}
        => fee[p] = 0 /\ tx[p] = EmptyTx /\ outcome[p] = "none" /\ cause[p] = "none"

\* A probe that finds a record is the call's last step: the call is served the
\* stored snapshot, raises nothing, computes no fee, takes no lock, writes
\* nothing and draws no transfer id, whatever its payload.
C11_ProbeStep ==
    \A p \in Reqs :
        (/\ IsTransfer(p)
         /\ pc[p] \in {"route_probe", "uc_probe"}
         /\ StoredResponses(req[p].idempotency_key) # {}
         /\ pc'[p] # pc[p])
        => /\ pc'[p] = "done"
           /\ outcome'[p] = "ok" /\ cause'[p] = "none"
           /\ \E i \in StoredResponses(req[p].idempotency_key) :
                 result'[p].snapshot = i.response_data
           /\ UNCHANGED <<db, nextId, tx, fee>>

\* C11: the idempotency probe is the first step and is terminal: when the key
\* has a stored record the call returns the stored snapshot and performs no
\* validation, fee computation or mutation, also when its payload names a
\* merchant that does not exist, has from = to, has amount <= 0, or the sender
\* now lacks the funds.
C11_ProbeTerminal == [](C11_ProbeFirst) /\ [][C11_ProbeStep]_vars

\* A call from a merchant that does not exist to itself, with amount 0, was
\* served the stored snapshot of its key.
C11_Witness ==
    \E p \in Reqs :
        /\ IsTransfer(p) /\ pc[p] = "done" /\ outcome[p] = "ok"
        /\ WouldBeRefused(p)
        /\ req[p].from_merchant = "nobody" /\ req[p].to_merchant = "nobody"
        /\ req[p].amount = 0
        /\ \E i \in idem : /\ i.idempotency_key = req[p].idempotency_key
                           /\ result[p].snapshot = i.response_data

\* The commit of the execution that created the key's transfer reports
\* is_duplicate = FALSE and the id of the Transfer row it commits.
C12_FirstStep ==
    \A p \in Reqs :
        (IsTransfer(p) /\ pc[p] = "commit" /\ pc'[p] = "done" /\ outcome'[p] = "ok")
        => /\ result'[p].is_duplicate = FALSE
           /\ \E t \in transfers' \ transfers :
                 /\ t.idempotency_key = req[p].idempotency_key
                 /\ result'[p].snapshot.transfer_id = t.id

\* A request that finds the key's transfer committed reports is_duplicate =
\* TRUE and that transfer's id, and debits and credits nothing.
C12_LaterStep ==
    \A p \in Reqs :
        (/\ IsTransfer(p) /\ pc[p] \in {"route_probe", "uc_probe"} /\ pc'[p] # pc[p]
         /\ \E t \in transfers : t.idempotency_key = req[p].idempotency_key)
        => /\ pc'[p] = "done" /\ outcome'[p] = "ok"
           /\ result'[p].is_duplicate = TRUE
           /\ \E t \in transfers : /\ t.idempotency_key = req[p].idempotency_key
                                   /\ result'[p].snapshot.transfer_id = t.id
           /\ tx'[p] = EmptyTx
           /\ UNCHANGED <<balances, transfers, idem>>

\* C12: the first execution of a transfer for a key reports is_duplicate =
\* false; every request that comes after it with the same key reports
\* is_duplicate = true with the same transfer_id and applies no new debit or
\* credit.
C12_DuplicateFlag == [][C12_FirstStep /\ C12_LaterStep]_vars

\* ------------------------------------------------------------- fairness

\* One step of request p's handler, of its session's commit, or of the store
\* on its behalf (the deadlock detector).  Arrivals and abandonments are not
\* steps the program owes.
HandlerStep(p) ==
    \/ RouteProbe(p)
    \/ UcProbe(p)
    \/ CheckFrom(p)
    \/ CheckTo(p)
    \/ Debit(p)
    \/ CreditSelect(p)
    \/ CreditInsert(p)
    \/ TransferInsert(p)
    \/ IdemStore(p)
    \/ CommitTransfer(p)
    \/ CmCheck(p)
    \/ CmInsertMerchant(p)
    \/ CmInsertBalance(p)
    \/ CommitCreate(p)
    \/ DeadlockAbort(p)

\* The event loop resumes every coroutine that can run, and the store grants a
\* free lock to a session that waits for it.
SpecLive == Spec /\ \A p \in Reqs : WF_vars(HandlerStep(p))

\* A request that is done holds no row lock.
C13_LocksReleased == \A p \in Reqs : pc[p] = "done" => tx[p].locks = {}

\* Every transfer request that has arrived finishes.
C13_Finishes ==
    \A p \in Reqs : (IsTransfer(p) /\ pc[p] # "done") ~> (pc[p] = "done")

\* C13: no transfer request blocks forever: under fair scheduling every
\* execute_transfer eventually finishes (commits or aborts), and the lock a
\* request waits for is free once its holder's transaction has ended; also for
\* two transfers in opposite directions between the same two merchants, each
\* locking its sender row and then its recipient row.
C13_NoBlockingForever == [](C13_LocksReleased) /\ C13_Finishes

\* Two transfers in opposite directions each locked its sender row and waited
\* for the other's; the detector aborted one and the other committed.
C13_Witness ==
    \E p \in Reqs, q \in Reqs :
        /\ IsTransfer(p) /\ IsTransfer(q)
        /\ req[p].from_merchant = req[q].to_merchant
        /\ req[p].to_merchant = req[q].from_merchant
        /\ req[p].from_merchant # req[p].to_merchant
        /\ pc[p] = "done" /\ cause[p] = "DeadlockDetected"
        /\ pc[q] = "done" /\ outcome[q] = "ok"

\* The sessions that hold the lock of row r.
LockHolders(r) == {q \in Reqs : r \in tx[q].locks}

\* At most one open transaction holds a row's lock, and only the holder has
\* an uncommitted write of the row.
C14_OneHolder ==
    \A r \in Rows :
        /\ Cardinality(LockHolders(r)) <= 1
        /\ \A q \in Reqs :
              (\E u \in tx[q].bupd : <<u.merchant_name, u.currency>> = r)
              => q \in LockHolders(r)

\* The step in which a debit reads its row and decides: no other transaction
\* holds the row's lock or an uncommitted write of the row, and the decision
\* and the new amount come from the committed balance.
C14_DebitStep ==
    \A p \in Reqs :
        LET r == <<req[p].from_merchant, req[p].currency>>
            total == req[p].amount + fee[p]
        IN  (/\ IsTransfer(p) /\ pc[p] = "debit" /\ pc'[p] # "debit"
             /\ BalanceRows(r[1], r[2]) # {}
             /\ cause'[p] \notin {"DeadlockDetected", "CancelledError"})
            => /\ LockHolders(r) \subseteq {p}
               /\ \A q \in Reqs \ {p} :
                     ~\E u \in tx[q].bupd : <<u.merchant_name, u.currency>> = r
               /\ IF BalanceOf(r[1], r[2]) < total
                  THEN outcome'[p] = "InsufficientFunds" /\ tx'[p] = EmptyTx
                  ELSE /\ outcome'[p] = "none"
                       /\ r \in tx'[p].locks
                       /\ \E u \in tx'[p].bupd :
                             /\ <<u.merchant_name, u.currency>> = r
                             /\ u.amount = Stored(BalanceOf(r[1], r[2]) - total)

\* C14: two concurrent debits against the same (merchant, currency) row
\* serialize: at most one in-flight transaction holds the row lock, the second
\* debit does not read the balance until the first transaction has committed
\* or rolled back, and its decision uses the balance with the first's
\* committed effect (or without it, if the first rolled back).
C14_DebitsSerialize == [](C14_OneHolder) /\ [][C14_DebitStep]_vars

\* One transfer has debited the row and not yet committed; a second transfer
\* from the same sender has reached its debit and waits.
C14_Witness ==
    \E p \in Reqs, q \in Reqs :
        /\ p # q /\ IsTransfer(p) /\ IsTransfer(q)
        /\ req[p].from_merchant = req[q].from_merchant
        /\ req[p].currency = req[q].currency
        /\ pc[p] = "debit"
        /\ <<req[q].from_merchant, req[q].currency>> \in tx[q].locks
        /\ \E u \in tx[q].bupd : u.merchant_name = req[q].from_merchant
        /\ ~CanLock(p, req[p].from_merchant, req[p].currency)

\* ------------------------------- transfers on disjoint balance rows

\* The currency of each request of the disjoint run: request p moves money in
\* its own currency, so no two requests share a (merchant, currency) row.
DisjointCurrency == <<"BTC", "ETH", "LTC", "XMR">>

DisjointRows == Names \X {DisjointCurrency[p] : p \in Reqs}

\* NumReqs concurrent transfers between alice and bob, each in its own
\* currency and with its own key, from a sender holding 1.0 to a recipient
\* that has a row holding 1.0 or no row yet.
InitDisjoint ==
    \E from \in [Reqs -> Names], a \in [Reqs -> Amounts \ {0}],
       rb \in [Reqs -> {0, 1000000000}] :
        LET to == [p \in Reqs |-> CHOOSE n \in Names : n # from[p]]
        IN  /\ merchants = {[name |-> n, rid |-> 0] : n \in Names}
            /\ initial = [r \in DisjointRows |->
                            LET p == CHOOSE q \in Reqs : DisjointCurrency[q] = r[2]
                            IN  IF r[1] = from[p] THEN 1000000000 ELSE rb[p]]
            /\ balances = {[merchant_name |-> r[1], currency |-> r[2],
                            amount |-> initial[r], rid |-> 0] :
                              r \in {x \in DisjointRows : initial[x] > 0}}
            /\ transfers = {}
            /\ idem = {}
            /\ nextId = 1
            /\ clock = 0
            /\ req = [p \in Reqs |-> [kind |-> "transfer", from_merchant |-> from[p],
                                       to_merchant |-> to[p],
                                       currency |-> DisjointCurrency[p],
                                       amount |-> a[p], idempotency_key |-> p]]
            /\ pc = [p \in Reqs |-> "route_probe"]
            /\ tx = [p \in Reqs |-> EmptyTx]
            /\ fee = [p \in Reqs |-> 0]
            /\ outcome = [p \in Reqs |-> "none"]
            /\ cause = [p \in Reqs |-> "none"]
            /\ result = [p \in Reqs |-> NoResult]

SpecDisjoint == InitDisjoint /\ [][NextBurst]_vars

\* The statement request p is about to run has to wait for another session: for
\* a row lock, or for an uncommitted insert into a unique index.
Waits(p) ==
    \/ /\ pc[p] = "debit"
       /\ BalanceRows(req[p].from_merchant, req[p].currency) # {}
       /\ ~CanLock(p, req[p].from_merchant, req[p].currency)
    \/ /\ pc[p] = "credit_select"
       /\ BalanceRows(req[p].to_merchant, req[p].currency) # {}
       /\ ~CanLock(p, req[p].to_merchant, req[p].currency)
    \/ pc[p] = "credit_insert"
       /\ BalanceInsertPending(p, req[p].to_merchant, req[p].currency)
    \/ pc[p] = "transfer_insert" /\ TransferInsertPending(p, req[p].idempotency_key)
    \/ pc[p] = "idem_store" /\ IdemInsertPending(p, req[p].idempotency_key)

\* What request p's transfer does to row r, computed from its payload alone.
ReqDelta(p, r) ==
    (IF <<req[p].to_merchant, req[p].currency>> = r
     THEN CreditEffect(req[p].amount) ELSE 0)
    - (IF <<req[p].from_merchant, req[p].currency>> = r
       THEN DebitEffect(req[p].amount + calculate_fee(req[p].amount)) ELSE 0)

RECURSIVE SumReqDelta(_, _)
SumReqDelta(P, r) ==
    IF P = {} THEN 0
    ELSE LET p == CHOOSE q \in P : TRUE IN ReqDelta(p, r) + SumReqDelta(P \ {p}, r)

\* C15: concurrent transfers with distinct keys whose sender and recipient
\* (merchant, currency) rows are pairwise disjoint never wait for one another,
\* and when all have finished all have succeeded and the committed balances
\* are the ones the payloads determine, whatever the interleaving and the
\* order of the commits.
C15_DisjointInParallel ==
    /\ \A p \in Reqs : ~Waits(p)
    /\ (\A p \in Reqs : pc[p] = "done")
       => /\ \A p \in Reqs : outcome[p] = "ok"
          /\ \A r \in DisjointRows :
                BalanceOf(r[1], r[2]) = initial[r] + SumReqDelta(Reqs, r)

\* Two transfers on disjoint rows are both fully flushed, each holding its
\* locks, and neither has committed.
C15_Witness ==
    \E p \in Reqs, q \in Reqs :
        /\ p # q
        /\ pc[p] = "commit" /\ pc[q] = "commit"
        /\ tx[p].locks # {} /\ tx[q].locks # {}
        /\ tx[p].locks \cap tx[q].locks = {}
        /\ req[p].currency # req[q].currency

\* No step of a transfer request other than its commit changes a table.
C16_OnlyCommitWrites ==
    \A p \in Reqs :
        (/\ IsTransfer(p) /\ pc'[p] # pc[p]
         /\ ~(pc[p] = "commit" /\ outcome'[p] = "ok"))
        => UNCHANGED db

\* The step in which a request is abandoned: the tables stay as they are, the
\* session keeps no write, and every row lock it held is held by nobody.
C16_AbandonStep ==
    \A p \in Reqs :
        (IsTransfer(p) /\ cause[p] = "none" /\ cause'[p] = "CancelledError")
        => /\ tx[p] # EmptyTx
           /\ UNCHANGED db
           /\ pc'[p] = "done" /\ outcome'[p] = "Abandoned"
           /\ tx'[p] = EmptyTx
           /\ \A r \in tx[p].locks : \A q \in Reqs : r \notin tx'[q].locks

\* C16: a transfer request abandoned (cancelled or timed out) at any step
\* between its first balance write and its commit leaves the committed state
\* exactly as it was before the request started, and every row lock it held is
\* released so that waiting requests can proceed.
C16_AbandonLeavesNothing == [][C16_OnlyCommitWrites /\ C16_AbandonStep]_vars

\* A transfer was abandoned after it had flushed its Transfer row; a transfer
\* from the same sender then took the row lock and committed, and the tables
\* hold the second transfer only.
C16_Witness ==
    \E p \in Reqs, q \in Reqs :
        /\ p # q /\ IsTransfer(p) /\ IsTransfer(q)
        /\ req[p].from_merchant = req[q].from_merchant
        /\ req[p].idempotency_key # req[q].idempotency_key
        /\ outcome[p] = "Abandoned" /\ outcome[q] = "ok"
        /\ nextId = 3
        /\ \E t \in transfers : transfers = {t} /\ t.id = 2
        /\ \A r \in Rows : BalanceOf(r[1], r[2]) = initial[r] + ReqDelta(q, r)

\* ------------------------------ the response and the commit, apart

\* The handler has returned TransferResponse(**result) and the response goes
\* out while get_db, suspended at its yield, has not yet resumed: the
\* dependency's exit code runs after the response is sent.
RespondBeforeCommit(p) ==
    /\ pc[p] = "commit"
    /\ \E i \in tx[p].kins :
          result' = [result EXCEPT ![p] = [kind |-> "transfer",
                                           snapshot |-> i.response_data,
                                           is_duplicate |-> FALSE]]
    /\ outcome' = [outcome EXCEPT ![p] = "ok"]
    /\ Goto(p, "committing")
    /\ UNCHANGED <<merchants, balances, transfers, idem, nextId, clock, req, tx, fee,
                   cause, initial>>

\* get_db resumes after its yield: session.commit() succeeds.
CommitAfterResponse(p) ==
    /\ pc[p] = "committing"
    /\ balances' = CommittedBalances(p)
    /\ transfers' = transfers \cup tx[p].tins
    /\ idem' = idem \cup tx[p].kins
    /\ tx' = [tx EXCEPT ![p] = EmptyTx]
    /\ Goto(p, "done")
    /\ UNCHANGED <<merchants, nextId, clock, req, fee, outcome, cause, result, initial>>

\* get_db resumes after its yield: session.commit() raises (the connection to
\* the store is lost); get_db rolls back and re-raises, with the response
\* already sent.
CommitFails(p) ==
    /\ pc[p] = "committing"
    /\ tx' = Rollback(p)
    /\ balances' = BalancesAfterRollback(p)
    /\ cause' = [cause EXCEPT ![p] = "CommitFailed"]
    /\ Goto(p, "done")
    /\ UNCHANGED <<merchants, transfers, idem, nextId, clock, req, fee, outcome, result,
                   initial>>

\* The request is abandoned before its response has been sent.
AbandonBeforeResponse(p) == pc[p] # "committing" /\ Abandon(p)

\* Transfer requests with the response and the commit as separate steps, in
\* either order: CommitTransfer is the order commit, then response.
NextTold ==
    \E p \in Reqs :
        \/ StartTransfer(p)
        \/ RouteProbe(p)
        \/ UcProbe(p)
        \/ CheckFrom(p)
        \/ CheckTo(p)
        \/ Debit(p)
        \/ CreditSelect(p)
        \/ CreditInsert(p)
        \/ TransferInsert(p)
        \/ IdemStore(p)
        \/ CommitTransfer(p)
        \/ RespondBeforeCommit(p)
        \/ CommitAfterResponse(p)
        \/ CommitFails(p)
        \/ AbandonBeforeResponse(p)
        \/ DeadlockAbort(p)

SpecTold == Init /\ [][NextTold]_vars

\* C17: a caller is told that a transfer succeeded only if that transfer's
\* transaction has committed: no request ends with the success result
\* returned and its transaction rolled back.
C17_ToldOnlyIfCommitted ==
    \A p \in Reqs :
        (IsTransfer(p) /\ pc[p] = "done" /\ outcome[p] = "ok")
        => \E t \in transfers : t.id = result[p].snapshot.transfer_id

\* ------------------------------------------------------------ queries

\* Query(100, ...) and Query(0, ...): the defaults of list_transfers.
DefaultLimit == 100

DefaultOffset == 0

\* Mutant: a statement also sees what other sessions have flushed and not
\* committed (a dirty read).
VisibleBalancesDirty(p) ==
    {b \in balances : ~\E q \in Reqs : \E u \in tx[q].bupd :
                          u.merchant_name = b.merchant_name /\ u.currency = b.currency}
    \cup UNION {tx[q].bupd \cup tx[q].bins : q \in Reqs}

\* The rows of balances a statement of session p sees at READ COMMITTED: the
\* committed rows, with the session's own flushed writes.
VisibleBalances(p) == CommittedBalances(p)

\* The rows of transfers a statement of session p sees.
VisibleTransfers(p) == transfers \cup tx[p].tins

\* The currencies a balance query may name: those in use and one no row has.
QueryCurrencies == Currencies \cup {"ETH"}

\* A caller sends GET /merchants/{name}/balance, with or without a currency.
StartGetBalance(p) ==
    /\ MayStart(p)
    /\ \E n \in PayloadNames, c \in QueryCurrencies \cup {"none"} :
          req' = [req EXCEPT ![p] = [kind |-> "get_balance", merchant_name |-> n,
                                     currency |-> c]]
    /\ Goto(p, "q_merchant")
    /\ UNCHANGED <<merchants, balances, transfers, idem, nextId, clock, tx, fee,
                   outcome, cause, result, initial>>

\* A caller sends GET /merchants/{name}.
StartGetMerchant(p) ==
    /\ MayStart(p)
    /\ \E n \in PayloadNames :
          req' = [req EXCEPT ![p] = [kind |-> "get_merchant", merchant_name |-> n]]
    /\ Goto(p, "q_merchant")
    /\ UNCHANGED <<merchants, balances, transfers, idem, nextId, clock, tx, fee,
                   outcome, cause, result, initial>>

\* The values GET /transfers is sent with: each filter absent ("none") or
\* naming one value, the default page or a page of one row, after the first
\* row or not.
ListFromFilters == {"none", "alice"}

ListToFilters == {"none", "bob"}

ListCurrencyFilters == {"none", "BTC"}

ListLimits == {1, DefaultLimit}

ListOffsets == {DefaultOffset, 1}

\* A caller sends GET /transfers.
StartListTransfers(p) ==
    /\ MayStart(p)
    /\ \E f \in ListFromFilters, t \in ListToFilters, c \in ListCurrencyFilters,
          l \in ListLimits, o \in ListOffsets :
          req' = [req EXCEPT ![p] = [kind |-> "list_transfers", from_merchant |-> f,
                                     to_merchant |-> t, currency |-> c,
                                     limit |-> l, offset |-> o]]
    /\ Goto(p, "q_list")
    /\ UNCHANGED <<merchants, balances, transfers, idem, nextId, clock, tx, fee,
                   outcome, cause, result, initial>>

\* Mutant: the query does not look the merchant up.
QueryMerchantNoLookup(p) ==
    /\ pc[p] = "q_merchant"
    /\ Goto(p, "q_balances")
    /\ UNCHANGED <<db, nextId, clock, req, tx, fee, outcome, cause, result, initial>>

\* GetMerchantUseCase / GetBalanceUseCase: merchant_repo.get_by_name, the first
\* statement of both.
QueryMerchant(p) ==
    /\ pc[p] = "q_merchant"
    /\ UNCHANGED <<nextId, clock, req, fee>>
    /\ IF ~MerchantExists(req[p].merchant_name)
       THEN Fail(p, "MerchantNotFound", "MerchantNotFoundError")
       ELSE /\ Goto(p, "q_balances")
            /\ UNCHANGED <<merchants, balances, transfers, idem, tx, outcome, cause, result,
                           initial>>

\* The second statement: balance_repo.get(name, currency), answered "0" when
\* there is no row, or balance_repo.get_all_for_merchant(name); then get_db
\* commits the read-only session.
QueryBalances(p) ==
    LET n == req[p].merchant_name
        rows == {b \in VisibleBalances(p) : b.merchant_name = n}
    IN  /\ pc[p] = "q_balances"
        /\ result' = [result EXCEPT ![p] =
              IF req[p].kind = "get_balance" /\ req[p].currency # "none"
              THEN [kind |-> "balance", merchant_name |-> n,
                    currency |-> req[p].currency,
                    amount |-> SumAmount({b \in rows : b.currency = req[p].currency})]
              ELSE [kind |-> "balances", merchant_name |-> n,
                    balances |-> {[currency |-> b.currency, amount |-> b.amount] :
                                     b \in rows}]]
        /\ outcome' = [outcome EXCEPT ![p] = "ok"]
        /\ Goto(p, "done")
        /\ UNCHANGED <<merchants, balances, transfers, idem, nextId, clock, req, tx, fee,
                       cause, initial>>

\* Mutant: ORDER BY created_at, oldest first.
OrderedByCreatedAtAsc(T) ==
    {s \in [1..Cardinality(T) -> T] :
        /\ \A i, j \in 1..Cardinality(T) : i # j => s[i] # s[j]
        /\ \A i, j \in 1..Cardinality(T) : i < j => s[i].created_at <= s[j].created_at}

\* The orders in which ORDER BY created_at DESC may return the rows T: rows
\* with equal created_at come in any order.
OrderedByCreatedAtDesc(T) ==
    {s \in [1..Cardinality(T) -> T] :
        /\ \A i, j \in 1..Cardinality(T) : i # j => s[i] # s[j]
        /\ \A i, j \in 1..Cardinality(T) : i < j => s[i].created_at >= s[j].created_at}

\* The rows limit and offset keep.
Page(s, limit, offset) ==
    SubSeq(s, offset + 1, IF Len(s) < offset + limit THEN Len(s) ELSE offset + limit)

\* The WHERE clauses TransferRepository.list adds for the filters it is given.
Matches(t, q) ==
    /\ q.from_merchant # "none" => t.from_merchant = q.from_merchant
    /\ q.to_merchant # "none" => t.to_merchant = q.to_merchant
    /\ q.currency # "none" => t.currency = q.currency

\* ListTransfersUseCase.execute: one SELECT, filtered, ordered, limited; then
\* get_db commits the read-only session.
QueryList(p) ==
    /\ pc[p] = "q_list"
    /\ \E s \in OrderedByCreatedAtDesc({t \in VisibleTransfers(p) : Matches(t, req[p])}) :
          result' = [result EXCEPT ![p] =
                       [kind |-> "transfers",
                        transfers |-> Page(s, req[p].limit, req[p].offset)]]
    /\ outcome' = [outcome EXCEPT ![p] = "ok"]
    /\ Goto(p, "done")
    /\ UNCHANGED <<merchants, balances, transfers, idem, nextId, clock, req, tx, fee,
                   cause, initial>>

\* All operations: merchant creation, transfers and the three queries.
NextQuery ==
    \/ Next
    \/ \E p \in Reqs :
          \/ StartGetBalance(p)
          \/ StartGetMerchant(p)
          \/ StartListTransfers(p)
          \/ QueryMerchant(p)
          \/ QueryBalances(p)
          \/ QueryList(p)

SpecQuery == Init /\ [][NextQuery]_vars

IsQuery(p) == req[p].kind \in {"get_balance", "get_merchant", "list_transfers"}

\* What a query's reading statement returns is what the tables hold committed.
C18_ReadStep ==
    \A p \in Reqs :
        (IsQuery(p) /\ pc[p] \in {"q_balances", "q_list"} /\ pc'[p] = "done")
        => /\ result'[p].kind = "balance"
                 => result'[p].amount = BalanceOf(req[p].merchant_name, req[p].currency)
           /\ result'[p].kind = "balances"
                 => result'[p].balances =
                       {[currency |-> b.currency, amount |-> b.amount] :
                           b \in {x \in balances : x.merchant_name = req[p].merchant_name}}
           /\ result'[p].kind = "transfers"
                 => LET read == {result'[p].transfers[i] :
                                    i \in 1..Len(result'[p].transfers)}
                    IN  /\ read \subseteq transfers
                        /\ (/\ req[p].from_merchant = "none" /\ req[p].to_merchant = "none"
                            /\ req[p].currency = "none" /\ req[p].offset = 0
                            /\ req[p].limit > Cardinality(transfers))
                           => read = transfers
           /\ UNCHANGED <<db, tx>>

\* The committed tables hold, of each transfer, the debit, the credit and the
\* Transfer record together or none of them.
C18_CommittedWhole ==
    \A r \in Rows :
        BalanceOf(r[1], r[2]) =
            initial[r] + SumKeyDelta({t.idempotency_key : t \in transfers}, r)

\* C18: a query (get_merchant, get_balance, list_transfers) running
\* concurrently with transfers never observes a partially applied transfer:
\* every state it reads holds, for each transfer, the debit, the credit and
\* the Transfer record together or none of them.
C18_NoPartialRead == [](C18_CommittedWhole) /\ [][C18_ReadStep]_vars

\* A balance query was answered while a transfer had flushed its debit of the
\* queried row and not yet committed: the answer is the balance without it.
C18_Witness ==
    \E p \in Reqs, q \in Reqs :
        /\ IsQuery(p) /\ pc[p] = "done" /\ outcome[p] = "ok"
        /\ result[p].kind = "balance"
        /\ IsTransfer(q) /\ pc[q] = "commit"
        /\ req[q].from_merchant = req[p].merchant_name
        /\ req[q].currency = req[p].currency
        /\ \E u \in tx[q].bupd : /\ u.merchant_name = req[p].merchant_name
                                 /\ u.amount < result[p].amount
        /\ result[p].amount = initial[<<req[p].merchant_name, req[p].currency>>]

\* ------------------------------------------------------- the fee calculator

\* The precision of the decimal context calculate_fee computes in (Python's
\* default context: 28 significant digits, ROUND_HALF_EVEN).
Prec == 28

\* Decimal("0.00000001"): the fee has 8 fractional digits.
FeePlaces == 8

\* A Decimal: sign (1 is negative), the digits of the coefficient, the exponent.
Dec(s, d, e) == [sign |-> s, digits |-> d, exp |-> e]

Zeros(n) == [i \in 1..n |-> 0]

\* The amounts the calculator is given: 1.0, 100.0, 0.00005, the ties 0.000005
\* and 0.000015, 0.0000051, 0.0000049, 0.123456785, 1E+22, 1E+23, two amounts
\* of 29 significant digits (0.000005 and 1 each followed by 27 zeros and
\* a 1), and 0, -1.0, -0.00000001.
FeeAmounts ==
    { Dec(0, <<1, 0>>, -1), Dec(0, <<1, 0, 0, 0>>, -1), Dec(0, <<5>>, -5),
      Dec(0, <<5>>, -6), Dec(0, <<1, 5>>, -6), Dec(0, <<5, 1>>, -7),
      Dec(0, <<4, 9>>, -7), Dec(0, <<1, 2, 3, 4, 5, 6, 7, 8, 5>>, -9),
      Dec(0, <<1>>, 22), Dec(0, <<1>>, 23),
      Dec(0, <<5>> \o Zeros(27) \o <<1>>, -34),
      Dec(0, <<1>> \o Zeros(27) \o <<1>>, -28),
      Dec(0, <<0>>, 0), Dec(1, <<1, 0>>, -1), Dec(1, <<1>>, -8) }

RECURSIVE Norm(_)
\* The coefficient without leading zeros.
Norm(d) == IF Len(d) > 1 /\ d[1] = 0 THEN Norm(Tail(d)) ELSE d

RECURSIVE Inc(_)
\* The coefficient plus one.
Inc(d) ==
    IF d = <<>> THEN <<1>>
    ELSE IF d[Len(d)] < 9 THEN [d EXCEPT ![Len(d)] = @ + 1]
    ELSE Inc(SubSeq(d, 1, Len(d) - 1)) \o <<0>>

RECURSIVE MulCarry(_, _, _)
\* The coefficient times a one-digit number k, plus a carry.
MulCarry(d, k, carry) ==
    IF d = <<>> THEN (IF carry = 0 THEN <<>> ELSE <<carry>>)
    ELSE LET v == d[Len(d)] * k + carry
         IN  MulCarry(SubSeq(d, 1, Len(d) - 1), k, v \div 10) \o <<v % 10>>

\* ROUND_HALF_EVEN: the coefficient d without its last k >= 1 digits, the
\* dropped part rounded to nearest and a tie to the even neighbour.
RoundHalfEven(d, k) ==
    LET n == Len(d)
        kept == IF k >= n THEN <<0>> ELSE SubSeq(d, 1, n - k)
        first == IF k > n THEN 0 ELSE d[n - k + 1]
        rest == \E i \in 1..n : i > n - k + 1 /\ d[i] # 0
        up == \/ first > 5
              \/ first = 5 /\ (rest \/ kept[Len(kept)] % 2 = 1)
    IN  Norm(IF up THEN Inc(kept) ELSE kept)

\* The context rounds the result of an arithmetic operation to Prec digits.
ContextRound(d, e) ==
    IF Len(d) <= Prec THEN [digits |-> d, exp |-> e]
    ELSE LET r == RoundHalfEven(d, Len(d) - Prec)
         IN  IF Len(r) > Prec
             THEN [digits |-> SubSeq(r, 1, Prec), exp |-> e + Len(d) - Prec + 1]
             ELSE [digits |-> r, exp |-> e + Len(d) - Prec]

\* x.quantize(Decimal("0.00000001")): the value at exponent -FeePlaces,
\* rounded half-even; InvalidOperation when the coefficient would be longer
\* than Prec digits.
Quantize(x) ==
    IF x.exp >= -FeePlaces
    THEN LET d == x.digits \o Zeros(x.exp + FeePlaces)
         IN  IF Len(d) > Prec THEN [raises |-> "InvalidOperation"]
             ELSE [raises |-> "none", fee |-> Dec(0, d, -FeePlaces)]
    ELSE [raises |-> "none",
          fee |-> Dec(0, RoundHalfEven(x.digits, -FeePlaces - x.exp), -FeePlaces)]

\* Mutant: only negative amounts are refused.
NotPositiveStrict(a) == a.sign = 1 /\ \E i \in 1..Len(a.digits) : a.digits[i] # 0

\* amount <= 0
NotPositive(a) == a.sign = 1 \/ \A i \in 1..Len(a.digits) : a.digits[i] = 0

\* PercentageFeeCalculator.calculate_fee on a Decimal, fee_percent being
\* Decimal("0.1") times FeePercentTenths: the product is rounded by the
\* context, the division by Decimal("100") is exact (it only lowers the
\* exponent of the value), the quotient is quantized.
calculate_fee_decimal(a) ==
    IF NotPositive(a) THEN [raises |-> "ValueError"]
    ELSE LET prod == ContextRound(MulCarry(a.digits, FeePercentTenths, 0), a.exp - 1)
         IN  Quantize([digits |-> prod.digits, exp |-> prod.exp - 2])

\* Both calculators are built and each is handed one amount.
InitFee ==
    \E am \in [Reqs -> FeeAmounts] :
        /\ merchants = {}
        /\ balances = {}
        /\ initial = [r \in Rows |-> 0]
        /\ transfers = {}
        /\ idem = {}
        /\ nextId = 1
        /\ clock = 0
        /\ req = [p \in Reqs |-> [kind |-> "fee", amount |-> am[p]]]
        /\ pc = [p \in Reqs |-> "fee"]
        /\ tx = [p \in Reqs |-> EmptyTx]
        /\ fee = [p \in Reqs |-> 0]
        /\ outcome = [p \in Reqs |-> "none"]
        /\ cause = [p \in Reqs |-> "none"]
        /\ result = [p \in Reqs |-> NoResult]

\* One call of calculate_fee: it returns the fee or raises.
CalcFee(p) ==
    LET r == calculate_fee_decimal(req[p].amount)
    IN  /\ pc[p] = "fee"
        /\ Goto(p, "done")
        /\ outcome' = [outcome EXCEPT ![p] =
              CASE r.raises = "none" -> "ok"
                [] r.raises = "ValueError" -> "InvalidAmount"
                [] OTHER -> "InternalError"]
        /\ cause' = [cause EXCEPT ![p] = r.raises]
        /\ result' = [result EXCEPT ![p] =
              IF r.raises = "none" THEN [kind |-> "fee", fee |-> r.fee] ELSE NoResult]
        /\ UNCHANGED <<db, nextId, clock, req, tx, fee, initial>>

NextFee == \E p \in Reqs : CalcFee(p)

SpecFee == InitFee /\ [][NextFee]_vars

\* amount * percent / 100 computed exactly and rounded half-even to
\* FeePlaces fractional digits.
ExactFee(a) ==
    LET d == MulCarry(a.digits, FeePercentTenths, 0)
        e == a.exp - 3
    IN  Dec(0, IF e >= -FeePlaces THEN d \o Zeros(e + FeePlaces)
               ELSE RoundHalfEven(d, -FeePlaces - e), -FeePlaces)

RECURSIVE DigitsValue(_)
DigitsValue(d) == IF d = <<>> THEN 0 ELSE 10 * DigitsValue(SubSeq(d, 1, Len(d) - 1)) + d[Len(d)]

RECURSIVE Pow10(_)
Pow10(n) == IF n = 0 THEN 1 ELSE 10 * Pow10(n - 1)

\* The amounts that are a whole number below 10^9 of the units of 10^-9 the
\* transfer actions count money in.
InUnits(a) == a.sign = 0 /\ a.exp >= -9 /\ Len(a.digits) + a.exp + 9 <= 9

Units(a) == DigitsValue(a.digits) * Pow10(a.exp + 9)

\* On the amounts both can express, calculate_fee on units returns what
\* calculate_fee_decimal returns.
FeeModelsAgree ==
    \A p \in Reqs :
        (pc[p] = "done" /\ req[p].kind = "fee" /\ InUnits(req[p].amount)
                        /\ Units(req[p].amount) > 0)
        => /\ outcome[p] = "ok"
           /\ Units(result[p].fee) = calculate_fee(Units(req[p].amount))

\* C19: for every amount > 0, calculate_fee(amount) is amount * percent / 100
\* rounded to 8 fractional digits with round-half-even; 1.0 gives 0.001 and
\* 0.00005 gives 0.00000005 at percent 0.1.
C19_FeeIsHalfEven ==
    \A p \in Reqs :
        (pc[p] = "done" /\ req[p].kind = "fee" /\ req[p].amount.sign = 0
                        /\ req[p].amount.digits # Zeros(Len(req[p].amount.digits)))
        => /\ outcome[p] = "ok"
           /\ result[p].fee = ExactFee(req[p].amount)
           /\ req[p].amount = Dec(0, <<1, 0>>, -1)
                 => result[p].fee = Dec(0, <<1, 0, 0, 0, 0, 0>>, -8)
           /\ req[p].amount = Dec(0, <<5>>, -5) => result[p].fee = Dec(0, <<5>>, -8)
           /\ req[p].amount = Dec(0, <<5>>, -6) => result[p].fee = Dec(0, <<0>>, -8)
           /\ req[p].amount = Dec(0, <<1, 5>>, -6) => result[p].fee = Dec(0, <<2>>, -8)

\* The call of calculate_fee with an amount <= 0 raises the error that stands
\* for InvalidAmount and hands back nothing.
C20_RefuseStep ==
    \A p \in Reqs :
        (/\ pc[p] = "fee" /\ pc'[p] = "done"
         /\ \/ req[p].amount.sign = 1
            \/ req[p].amount.digits = Zeros(Len(req[p].amount.digits)))
        => /\ outcome'[p] = "InvalidAmount"
           /\ cause'[p] = "ValueError"
           /\ result'[p] = NoResult
           /\ UNCHANGED <<db, fee>>

\* C20: calculate_fee fails with InvalidAmount for every amount <= 0, zero
\* included, and returns no fee in that case.
C20_NonPositiveRefused == [][C20_RefuseStep]_vars

\* calculate_fee was called with 0 and with a negative amount and refused both.
C20_Witness ==
    \E p \in Reqs, q \in Reqs :
        /\ req[p].kind = "fee" /\ req[q].kind = "fee"
        /\ pc[p] = "done" /\ pc[q] = "done"
        /\ req[p].amount = Dec(0, <<0>>, 0)
        /\ req[q].amount.sign = 1
        /\ outcome[p] = "InvalidAmount" /\ outcome[q] = "InvalidAmount"
        /\ result[p] = NoResult /\ result[q] = NoResult

\* ------------------------------------------------------------ C21 .. C30

IsCreate(p) == req[p].kind = "create"

\* The step in which create_merchant tests its input: a negative
\* initial_balance, and otherwise a name that is taken, ends the request with
\* the error and without a write.
C21_RefuseStep ==
    \A p \in Reqs :
        (/\ IsCreate(p) /\ pc[p] = "cm_check" /\ pc'[p] # "cm_check"
         /\ \/ req[p].initial_balance < 0
            \/ \E m \in merchants : m.name = req[p].merchant_name)
        => /\ pc'[p] = "done"
           /\ outcome'[p] = IF req[p].initial_balance < 0 THEN "InvalidAmount"
                                                           ELSE "AlreadyExists"
           /\ tx'[p] = EmptyTx
           /\ UNCHANGED db

\* A create_merchant that ended with one of the two errors has written nothing.
C21_NothingPending ==
    \A p \in Reqs :
        (IsCreate(p) /\ outcome[p] \in {"InvalidAmount", "AlreadyExists"})
        => /\ pc[p] = "done"
           /\ tx[p] = EmptyTx
           /\ \A m \in merchants : m.rid # p
           /\ \A b \in balances : b.rid # p

\* C21: create_merchant fails with AlreadyExists when a merchant with that
\* name exists and with InvalidAmount when initial_balance < 0; in both cases
\* no merchant and no balance row is created or changed.
C21_CreateRefused == [](C21_NothingPending) /\ [][C21_RefuseStep]_vars

\* One create_merchant was refused for a taken name, another for a negative
\* initial balance.
C21_Witness ==
    \E p \in Reqs, q \in Reqs :
        /\ IsCreate(p) /\ IsCreate(q)
        /\ outcome[p] = "AlreadyExists" /\ req[p].initial_balance >= 0
        /\ \E m \in merchants : m.name = req[p].merchant_name
        /\ outcome[q] = "InvalidAmount" /\ req[q].initial_balance < 0

\* C22: in every reachable state merchant names are unique: for any
\* interleaving of concurrent create_merchant requests with the same name,
\* where several pass the existence check before any of them inserts, at most
\* one merchant with that name is committed.
C22_UniqueNames ==
    \A m1 \in merchants, m2 \in merchants : m1.name = m2.name => m1 = m2

\* Two create_merchant requests for one name both passed the lookup; one
\* committed its row and the other was refused by the unique index.
C22_Witness ==
    \E p \in Reqs, q \in Reqs :
        /\ p # q /\ IsCreate(p) /\ IsCreate(q)
        /\ req[p].merchant_name = req[q].merchant_name
        /\ pc[p] = "done" /\ outcome[p] = "ok"
        /\ \E m \in merchants : m.name = req[p].merchant_name /\ m.rid = p
        /\ pc[q] = "done" /\ cause[q] = "IntegrityError(merchants)"

\* ------------------------- transfers from several senders to one recipient

\* The merchant every request of the fan-in run pays.
FanInRecipient == "carol"

FanInRows == (Names \cup {FanInRecipient}) \X Currencies

\* NumReqs concurrent transfers with distinct keys to one recipient, which has
\* a row holding 0.00005 or no row yet, each from alice or from bob, who hold 1.0.
InitFanIn ==
    \E from \in [Reqs -> Names], a \in [Reqs -> Amounts \ {0}], rb \in {0, 50000} :
        /\ merchants = {[name |-> n, rid |-> 0] : n \in Names \cup {FanInRecipient}}
        /\ initial = [r \in FanInRows |-> IF r[1] = FanInRecipient THEN rb ELSE 1000000000]
        /\ balances = {[merchant_name |-> r[1], currency |-> r[2],
                        amount |-> initial[r], rid |-> 0] :
                          r \in {x \in FanInRows : initial[x] > 0}}
        /\ transfers = {}
        /\ idem = {}
        /\ nextId = 1
        /\ clock = 0
        /\ req = [p \in Reqs |-> [kind |-> "transfer", from_merchant |-> from[p],
                                   to_merchant |-> FanInRecipient, currency |-> "BTC",
                                   amount |-> a[p], idempotency_key |-> p]]
        /\ pc = [p \in Reqs |-> "route_probe"]
        /\ tx = [p \in Reqs |-> EmptyTx]
        /\ fee = [p \in Reqs |-> 0]
        /\ outcome = [p \in Reqs |-> "none"]
        /\ cause = [p \in Reqs |-> "none"]
        /\ result = [p \in Reqs |-> NoResult]

SpecFanIn == InitFanIn /\ [][NextBurst]_vars

\* C23: in every reachable state there is at most one balance row per
\* (merchant, currency): for any interleaving of concurrent credits to a
\* (merchant, currency) that has no row yet, where several transactions find
\* no row to lock and each tries to insert one, at most one row is committed.
C23_OneRowPerKey ==
    \A b1 \in balances, b2 \in balances :
        (b1.merchant_name = b2.merchant_name /\ b1.currency = b2.currency) => b1 = b2

\* Two transfers to one recipient both found no row to lock; one committed
\* the row it inserted and the other's insert was refused by the unique index.
C23_Witness ==
    \E p \in Reqs, q \in Reqs :
        /\ p # q /\ IsTransfer(p) /\ IsTransfer(q)
        /\ req[p].to_merchant = req[q].to_merchant
        /\ req[p].currency = req[q].currency
        /\ pc[p] = "done" /\ outcome[p] = "ok"
        /\ \E b \in balances : /\ b.merchant_name = req[p].to_merchant
                               /\ b.currency = req[p].currency
                               /\ b.rid = p
        /\ pc[q] = "done" /\ cause[q] = "IntegrityError(balances)"

\* get_balance(name, currency) looks the merchant up and fails when there is
\* none; then it reads the row and answers its amount, or zero without a row.
C24_BalanceStep ==
    \A p \in Reqs :
        (req[p].kind = "get_balance" /\ req[p].currency # "none" /\ pc'[p] # pc[p])
        => /\ (pc[p] = "q_merchant"
                  /\ ~\E m \in merchants : m.name = req[p].merchant_name)
              => /\ pc'[p] = "done"
                 /\ outcome'[p] = "MerchantNotFound"
                 /\ result'[p] = NoResult
           /\ (pc[p] = "q_merchant"
                  /\ \E m \in merchants : m.name = req[p].merchant_name)
              => pc'[p] = "q_balances" /\ outcome'[p] = "none"
           /\ pc[p] = "q_balances"
              => /\ pc'[p] = "done"
                 /\ outcome'[p] = "ok"
                 /\ result'[p].kind = "balance"
                 /\ result'[p].merchant_name = req[p].merchant_name
                 /\ result'[p].currency = req[p].currency
                 /\ \A b \in balances :
                       (b.merchant_name = req[p].merchant_name
                           /\ b.currency = req[p].currency)
                       => result'[p].amount = b.amount
                 /\ (~\E b \in balances : /\ b.merchant_name = req[p].merchant_name
                                          /\ b.currency = req[p].currency)
                       => result'[p].amount = 0
           /\ UNCHANGED db

\* C24: get_balance(name, currency) fails with MerchantNotFound when the
\* merchant does not exist; for an existing merchant with no balance row in
\* that currency it returns amount zero, not an error, and otherwise it
\* returns the stored amount.
C24_GetBalance == [][C24_BalanceStep]_vars

\* One balance query was refused for a merchant that does not exist, another
\* was answered zero for an existing merchant without a row in the currency.
C24_Witness ==
    \E p \in Reqs, q \in Reqs :
        /\ req[p].kind = "get_balance" /\ req[p].currency # "none"
        /\ pc[p] = "done" /\ outcome[p] = "MerchantNotFound"
        /\ req[q].kind = "get_balance" /\ req[q].currency # "none"
        /\ pc[q] = "done" /\ outcome[q] = "ok"
        /\ \E m \in merchants : m.name = req[q].merchant_name
        /\ ~\E b \in balances : /\ b.merchant_name = req[q].merchant_name
                                /\ b.currency = req[q].currency
        /\ result[q].amount = 0

\* ------------------------------------ listing a history of transfers

ListCurrencies == {"BTC", "ETH"}

ListRows == Names \X ListCurrencies

\* Four transfers of 0.00005 that were committed one after the other: two
\* were created at time 1 and two at time 2, one of them moved ETH and one
\* went from bob to alice.
ListHistory ==
    LET row(i, f, t, c, at) ==
            [id |-> i, from_merchant |-> f, to_merchant |-> t, currency |-> c,
             amount |-> 50000, fee |-> calculate_fee(50000),
             idempotency_key |-> NumKeys + i, created_at |-> at]
    IN  << row(1, "alice", "bob", "BTC", 1), row(2, "bob", "alice", "BTC", 1),
           row(3, "alice", "bob", "ETH", 2), row(4, "alice", "bob", "BTC", 2) >>

\* The state after the first n transfers of ListHistory have committed, every
\* merchant having started with 1.0 of each currency; no request has arrived.
InitList ==
    \E n \in 0..Len(ListHistory) :
        LET H == {ListHistory[i] : i \in 1..n}
        IN  /\ merchants = {[name |-> m, rid |-> 0] : m \in Names}
            /\ initial = [r \in ListRows |-> 1000000000]
            /\ balances =
                  {[merchant_name |-> r[1], currency |-> r[2], rid |-> 0,
                    amount |-> initial[r]
                       + SumAmount({t \in H : <<t.to_merchant, t.currency>> = r})
                       - SumDebit({t \in H : <<t.from_merchant, t.currency>> = r})] :
                      r \in ListRows}
            /\ transfers = H
            /\ idem = {[idempotency_key |-> t.idempotency_key, transfer_id |-> t.id,
                        response_data |->
                           [transfer_id |-> t.id, from_merchant |-> t.from_merchant,
                            to_merchant |-> t.to_merchant, currency |-> t.currency,
                            amount |-> t.amount, fee |-> t.fee,
                            created_at |-> t.created_at]] : t \in H}
            /\ nextId = n + 1
            /\ clock = IF n = 0 THEN 0 ELSE ListHistory[n].created_at
            /\ req = [p \in Reqs |-> NoReq]
            /\ pc = [p \in Reqs |-> "idle"]
            /\ tx = [p \in Reqs |-> EmptyTx]
            /\ fee = [p \in Reqs |-> 0]
            /\ outcome = [p \in Reqs |-> "none"]
            /\ cause = [p \in Reqs |-> "none"]
            /\ result = [p \in Reqs |-> NoResult]

NextList == \E p \in Reqs : StartListTransfers(p) \/ QueryList(p)

SpecList == InitList /\ [][NextList]_vars

\* The committed transfers that pass every filter request p supplies.
C25_Matching(p) ==
    {t \in transfers :
        /\ req[p].from_merchant # "none" => t.from_merchant = req[p].from_merchant
        /\ req[p].to_merchant # "none" => t.to_merchant = req[p].to_merchant
        /\ req[p].currency # "none" => t.currency = req[p].currency}

\* The answer of list_transfers: matching transfers only, none twice, most
\* recent first, as many as limit allows of those left after offset, the
\* skipped ones being as recent as any returned and the omitted ones as old.
C25_ListStep ==
    \A p \in Reqs :
        (req[p].kind = "list_transfers" /\ pc[p] = "q_list" /\ pc'[p] = "done")
        => LET s == result'[p].transfers
               M == C25_Matching(p)
               n == Cardinality(M)
               got == {s[i] : i \in 1..Len(s)}
               left == IF n > req[p].offset THEN n - req[p].offset ELSE 0
           IN  /\ outcome'[p] = "ok"
               /\ got \subseteq M
               /\ Cardinality(got) = Len(s)
               /\ Len(s) = IF left < req[p].limit THEN left ELSE req[p].limit
               /\ \A i, j \in 1..Len(s) : i < j => s[i].created_at >= s[j].created_at
               /\ \E K \in SUBSET (M \ got) :
                     /\ Cardinality(K) = n - left
                     /\ \A k \in K, e \in got : k.created_at >= e.created_at
                     /\ \A o \in (M \ got) \ K, e \in got : o.created_at <= e.created_at
               /\ (/\ req[p].from_merchant = "none" /\ req[p].to_merchant = "none"
                   /\ req[p].currency = "none")
                  => M = transfers
               /\ UNCHANGED db

\* C25: list_transfers(from?, to?, currency?, limit, offset) returns exactly
\* the committed transfers that match every supplied filter, ordered by
\* creation time descending, skipping the first offset of them and returning
\* at most limit; with no filter it returns all committed transfers in that
\* order.
C25_ListTransfers == [][C25_ListStep]_vars

\* A list filtered by sender and currency, asked for one row after the first,
\* returned the older of the two matching transfers and left out the ETH
\* transfer and the one from bob; an unfiltered list returned all four.
C25_Witness ==
    \E p \in Reqs, q \in Reqs :
        /\ Cardinality(transfers) = 4
        /\ req[p].kind = "list_transfers" /\ pc[p] = "done"
        /\ req[p].from_merchant = "alice" /\ req[p].currency = "BTC"
        /\ req[p].limit = 1 /\ req[p].offset = 1
        /\ Len(result[p].transfers) = 1
        /\ result[p].transfers[1].id = 1
        /\ req[q].kind = "list_transfers" /\ pc[q] = "done"
        /\ req[q].from_merchant = "none" /\ req[q].to_merchant = "none"
        /\ req[q].currency = "none" /\ req[q].offset = 0 /\ req[q].limit = DefaultLimit
        /\ Len(result[q].transfers) = 4
        /\ result[q].transfers[1].created_at = 2
        /\ result[q].transfers[4].created_at = 1

\* Each IdempotencyRecord points at the Transfer with its key, each Transfer
\* has exactly one IdempotencyRecord, and transfer ids are pairwise distinct.
C26_Correspondence ==
    /\ \A i \in idem : \E t \in transfers : /\ t.id = i.transfer_id
                                            /\ t.idempotency_key = i.idempotency_key
    /\ \A t \in transfers :
          Cardinality({i \in idem : i.idempotency_key = t.idempotency_key}) = 1
    /\ \A t1 \in transfers, t2 \in transfers : t1.id = t2.id => t1 = t2

\* The stored snapshot repeats the fields of the Transfer it belongs to.
C26_SnapshotFields ==
    \A i \in idem : \A t \in transfers :
        t.idempotency_key = i.idempotency_key
        => /\ i.response_data.transfer_id = t.id
           /\ i.response_data.from_merchant = t.from_merchant
           /\ i.response_data.to_merchant = t.to_merchant
           /\ i.response_data.currency = t.currency
           /\ i.response_data.amount = t.amount
           /\ i.response_data.fee = t.fee

\* C26: in every committed state Transfer records and IdempotencyRecords are
\* in one-to-one correspondence: each IdempotencyRecord's transfer_id is the
\* id of an existing Transfer carrying the same key, each Transfer has exactly
\* one IdempotencyRecord, transfer ids are pairwise distinct, and the stored
\* snapshot's transfer_id, from, to, currency, amount and fee equal the fields
\* of that Transfer.
C26_OneToOne == C26_Correspondence /\ C26_SnapshotFields

\* --------------------------- transfers of amounts finer than the column

\* 0.000000004 and 0.000000005, which the column rounds to 0 and to
\* 0.00000001; 0.000014995, which it rounds to 0.000015; and 0.00005.
RoundAmounts == {4, 5, 14995, 50000}

\* NumReqs concurrent transfers with distinct keys between alice and bob, who
\* each hold 1.0 or have no row yet, of amounts that have up to nine
\* fractional digits.
InitRound ==
    \E from \in [Reqs -> Names], a \in [Reqs -> RoundAmounts],
       ib \in [Names -> {0, 1000000000}] :
        /\ merchants = {[name |-> n, rid |-> 0] : n \in Names}
        /\ initial = [r \in Rows |-> ib[r[1]]]
        /\ balances = {[merchant_name |-> r[1], currency |-> r[2],
                        amount |-> initial[r], rid |-> 0] :
                          r \in {x \in Rows : initial[x] > 0}}
        /\ transfers = {}
        /\ idem = {}
        /\ nextId = 1
        /\ clock = 0
        /\ req = [p \in Reqs |-> [kind |-> "transfer", from_merchant |-> from[p],
                                   to_merchant |-> CHOOSE n \in Names : n # from[p],
                                   currency |-> "BTC", amount |-> a[p],
                                   idempotency_key |-> p]]
        /\ pc = [p \in Reqs |-> "route_probe"]
        /\ tx = [p \in Reqs |-> EmptyTx]
        /\ fee = [p \in Reqs |-> 0]
        /\ outcome = [p \in Reqs |-> "none"]
        /\ cause = [p \in Reqs |-> "none"]
        /\ result = [p \in Reqs |-> NoResult]

SpecRound == InitRound /\ [][NextBurst]_vars

\* The Transfer records there are: the committed ones and the ones an open
\* transaction has flushed.
C27_Records == transfers \cup UNION {tx[p].tins : p \in Reqs}

\* The fields of every Transfer record are those of a valid transfer.
C27_ValidFields ==
    \A t \in C27_Records :
        /\ t.from_merchant # t.to_merchant
        /\ t.amount > 0
        /\ t.fee >= 0
        /\ t.idempotency_key \in Keys

\* C27: every Transfer record that exists in any reachable state has
\* from_merchant != to_merchant, amount > 0, fee >= 0, a non-empty
\* idempotency key, and fee equal to calculate_fee(amount), so that its
\* total_debit is amount + fee.
C27_RecordsWellFormed ==
    /\ C27_ValidFields
    /\ \A t \in C27_Records : t.fee = calculate_fee(t.amount)

\* --------------------------------- balances around amount + fee

\* No row, 0.999, 1.0, 1.001 and 1.00100001.
SufficiencyBalances == {0, 999000000, 1000000000, 1001000000, 1001000010}

\* 0.999, whose fee is 0.000999, and 1.0, whose fee is 0.001.
SufficiencyAmounts == {999000000, 1000000000}

\* NumReqs concurrent transfers with distinct keys between alice and bob,
\* who have no row or a balance below, between or above the amount and
\* amount + fee.
InitSufficiency ==
    \E from \in [Reqs -> Names], a \in [Reqs -> SufficiencyAmounts],
       ib \in [Names -> SufficiencyBalances] :
        /\ merchants = {[name |-> n, rid |-> 0] : n \in Names}
        /\ initial = [r \in Rows |-> ib[r[1]]]
        /\ balances = {[merchant_name |-> r[1], currency |-> r[2],
                        amount |-> initial[r], rid |-> 0] :
                          r \in {x \in Rows : initial[x] > 0}}
        /\ transfers = {}
        /\ idem = {}
        /\ nextId = 1
        /\ clock = 0
        /\ req = [p \in Reqs |-> [kind |-> "transfer", from_merchant |-> from[p],
                                   to_merchant |-> CHOOSE n \in Names : n # from[p],
                                   currency |-> "BTC", amount |-> a[p],
                                   idempotency_key |-> p]]
        /\ pc = [p \in Reqs |-> "route_probe"]
        /\ tx = [p \in Reqs |-> EmptyTx]
        /\ fee = [p \in Reqs |-> 0]
        /\ outcome = [p \in Reqs |-> "none"]
        /\ cause = [p \in Reqs |-> "none"]
        /\ result = [p \in Reqs |-> NoResult]

SpecSufficiency == InitSufficiency /\ [][NextBurst]_vars

\* The debit of a transfer whose sender has a row: with a balance of at least
\* amount + fee it is applied and the row is left with the difference, which
\* is 0 when the two are equal; with less the transfer is rejected with
\* InsufficientFunds, also when the balance covers the amount alone.
C28_DebitStep ==
    \A p \in Reqs :
        (/\ IsTransfer(p) /\ pc[p] = "debit" /\ pc'[p] # "debit"
         /\ BalanceRows(req[p].from_merchant, req[p].currency) # {})
        => LET bal == BalanceOf(req[p].from_merchant, req[p].currency)
               need == req[p].amount + calculate_fee(req[p].amount)
           IN  /\ bal >= need
                  => /\ pc'[p] = "credit_select" /\ outcome'[p] = "none"
                     /\ \E u \in tx'[p].bupd :
                           /\ u.merchant_name = req[p].from_merchant
                           /\ u.currency = req[p].currency
                           /\ u.amount = Stored(bal - need)
                           /\ bal = need => u.amount = 0
               /\ bal < need
                  => /\ pc'[p] = "done" /\ outcome'[p] = "InsufficientFunds"
                     /\ tx'[p] = EmptyTx
               /\ UNCHANGED db

\* A transfer ends committed or rejected for insufficient funds, and the
\* sender of a committed transfer who held exactly amount + fee holds 0.
C28_Outcome ==
    \A p \in Reqs :
        (IsTransfer(p) /\ pc[p] = "done")
        => /\ outcome[p] \in {"ok", "InsufficientFunds"}
           /\ (/\ outcome[p] = "ok"
               /\ initial[<<req[p].from_merchant, req[p].currency>>]
                     = req[p].amount + calculate_fee(req[p].amount)
               /\ TransfersTo(req[p].from_merchant, req[p].currency) = {})
              => BalanceOf(req[p].from_merchant, req[p].currency) = 0

\* C28: the sufficiency check of a transfer includes the fee: execute_transfer
\* succeeds when the sender's balance is >= amount + fee, leaving exactly 0
\* when the balance equals amount + fee, and is rejected with
\* InsufficientFunds when the balance is >= amount but < amount + fee.
C28_FeeInSufficiency == [](C28_Outcome) /\ [][C28_DebitStep]_vars

\* One transfer of 1.0 from a sender holding 1.001 committed and left the
\* sender with 0; another of 1.0 from a sender holding 1.0 was rejected with
\* InsufficientFunds.
C28_Witness ==
    \E p \in Reqs, q \in Reqs :
        /\ IsTransfer(p) /\ pc[p] = "done" /\ outcome[p] = "ok"
        /\ req[p].amount = 1000000000
        /\ initial[<<req[p].from_merchant, "BTC">>] = 1001000000
        /\ BalanceOf(req[p].from_merchant, "BTC") = 0
        /\ IsTransfer(q) /\ pc[q] = "done" /\ outcome[q] = "InsufficientFunds"
        /\ req[q].amount = 1000000000
        /\ initial[<<req[q].from_merchant, "BTC">>] = 1000000000
        /\ req[q].from_merchant # req[p].from_merchant

\* The debit of a transfer whose sender exists and has no row in the currency
\* ends the request with InsufficientFunds and writes nothing.
C29_NoBalanceStep ==
    \A p \in Reqs :
        (/\ IsTransfer(p) /\ pc[p] = "debit" /\ pc'[p] # "debit"
         /\ \E m \in merchants : m.name = req[p].from_merchant
         /\ ~\E b \in balances : /\ b.merchant_name = req[p].from_merchant
                                 /\ b.currency = req[p].currency)
        => /\ pc'[p] = "done"
           /\ outcome'[p] = "InsufficientFunds"
           /\ tx'[p] = EmptyTx
           /\ UNCHANGED db

\* A transfer rejected with InsufficientFunds has nothing flushed and owns no
\* balance row.
C29_NothingCreated ==
    \A p \in Reqs :
        (IsTransfer(p) /\ outcome[p] = "InsufficientFunds")
        => /\ pc[p] = "done" /\ tx[p] = EmptyTx
           /\ \A b \in balances : b.rid # p

\* C29: execute_transfer from an existing merchant that has no balance row in
\* the requested currency (the internal NoBalance condition) is reported to
\* the caller as InsufficientFunds, creates no balance row for the sender or
\* the recipient, and creates no Transfer or IdempotencyRecord.
C29_NoBalance == [](C29_NothingCreated) /\ [][C29_NoBalanceStep]_vars

\* A transfer between two existing merchants, neither of whom has a row, was
\* rejected with InsufficientFunds, and neither has a row afterwards.
C29_Witness ==
    \E p \in Reqs :
        /\ IsTransfer(p) /\ pc[p] = "done" /\ outcome[p] = "InsufficientFunds"
        /\ req[p].amount > 0
        /\ \E m \in merchants : m.name = req[p].from_merchant
        /\ \E m \in merchants : m.name = req[p].to_merchant
        /\ req[p].from_merchant # req[p].to_merchant
        /\ initial[<<req[p].from_merchant, req[p].currency>>] = 0
        /\ balances = {}
        /\ transfers = {} /\ idem = {}

\* The steps in which a transfer without a stored record is validated: the
\* sender is looked up first, then the recipient, then from == to is tested,
\* then the amount; the first test that fails names the error.
C30_ValidationOrder ==
    \A p \in Reqs :
        (IsTransfer(p) /\ pc'[p] # pc[p])
        => /\ (pc[p] = "check_from"
                  /\ ~\E m \in merchants : m.name = req[p].from_merchant)
              => outcome'[p] = "MerchantNotFound"
           /\ (pc[p] = "check_to"
                  /\ ~\E m \in merchants : m.name = req[p].to_merchant)
              => outcome'[p] = "MerchantNotFound"
           /\ (pc[p] = "check_to"
                  /\ (\E m \in merchants : m.name = req[p].to_merchant)
                  /\ req[p].from_merchant = req[p].to_merchant)
              => /\ outcome'[p] = "InvalidTransfer"
                 /\ cause'[p] = "InvalidTransferError(same merchant)"
           /\ (pc[p] = "check_to"
                  /\ (\E m \in merchants : m.name = req[p].to_merchant)
                  /\ req[p].from_merchant # req[p].to_merchant
                  /\ req[p].amount <= 0)
              => /\ outcome'[p] = "InvalidTransfer"
                 /\ cause'[p] = "InvalidTransferError(amount)"
           /\ pc[p] \in {"check_from", "check_to"} => UNCHANGED db

\* InsufficientFunds is reported only for a payload that passes every test.
C30_InsufficientLast ==
    \A p \in Reqs :
        (IsTransfer(p) /\ outcome[p] = "InsufficientFunds")
        => /\ \E m \in merchants : m.name = req[p].from_merchant
           /\ \E m \in merchants : m.name = req[p].to_merchant
           /\ req[p].from_merchant # req[p].to_merchant
           /\ req[p].amount > 0

\* C30: validation errors of execute_transfer have a fixed precedence: a
\* missing sender is reported before a missing recipient, MerchantNotFound
\* before InvalidTransfer for from == to (a transfer from a non-existent
\* merchant to itself yields MerchantNotFound), from == to before
\* amount <= 0, and all of them before InsufficientFunds.
C30_Precedence == [](C30_InsufficientLast) /\ [][C30_ValidationOrder]_vars

\* A transfer of amount 0 from a merchant that does not exist to itself was
\* answered MerchantNotFound; one of amount 0 from an existing merchant
\* without funds to itself was answered InvalidTransfer for from == to.
C30_Witness ==
    \E p \in Reqs, q \in Reqs :
        /\ IsTransfer(p) /\ pc[p] = "done"
        /\ req[p].from_merchant = "nobody" /\ req[p].to_merchant = "nobody"
        /\ req[p].amount = 0
        /\ outcome[p] = "MerchantNotFound"
        /\ IsTransfer(q) /\ pc[q] = "done"
        /\ req[q].from_merchant = req[q].to_merchant /\ req[q].amount = 0
        /\ \E m \in merchants : m.name = req[q].from_merchant
        /\ balances = {}
        /\ cause[q] = "InvalidTransferError(same merchant)"

\* ------------------------------------------------------------ C31 .. C39

\* ------------------------------------------------- add_amount called directly

\* Amounts a direct caller credits: below zero, zero, finer than the column,
\* on the column grid.
CreditAmounts == {-100000, -10, 0, 5, 50000}

\* Two sessions each call balance_repo.add_amount once, on rows that exist
\* (holding 0.00005) or not.
InitCredit ==
    \E to \in [Reqs -> Names], a \in [Reqs -> CreditAmounts],
       ib \in [Names -> {0, 50000}] :
        /\ merchants = {[name |-> n, rid |-> 0] : n \in Names}
        /\ initial = [r \in Rows |-> ib[r[1]]]
        /\ balances = {[merchant_name |-> r[1], currency |-> r[2],
                        amount |-> initial[r], rid |-> 0] :
                          r \in {x \in Rows : initial[x] > 0}}
        /\ transfers = {}
        /\ idem = {}
        /\ nextId = 1
        /\ clock = 0
        /\ req = [p \in Reqs |-> [kind |-> "credit", to_merchant |-> to[p],
                                   currency |-> "BTC", amount |-> a[p]]]
        /\ pc = [p \in Reqs |-> "credit_select"]
        /\ tx = [p \in Reqs |-> EmptyTx]
        /\ fee = [p \in Reqs |-> 0]
        /\ outcome = [p \in Reqs |-> "none"]
        /\ cause = [p \in Reqs |-> "none"]
        /\ result = [p \in Reqs |-> NoResult]

\* The direct caller commits its session after add_amount returned.
CommitCredit(p) ==
    /\ pc[p] = "credit_commit"
    /\ balances' = CommittedBalances(p)
    /\ tx' = [tx EXCEPT ![p] = EmptyTx]
    /\ outcome' = [outcome EXCEPT ![p] = "ok"]
    /\ Goto(p, "done")
    /\ UNCHANGED <<merchants, transfers, idem, nextId, clock, req, fee, cause, result,
                   initial>>

NextCredit ==
    \E p \in Reqs :
        \/ CreditSelect(p)
        \/ CreditInsert(p)
        \/ CommitCredit(p)

SpecCredit == InitCredit /\ [][NextCredit]_vars

IsCredit(p) == req[p].kind = "credit"

\* A step of add_amount: with amount >= 0 it does not end in InsufficientFunds,
\* a row it inserts holds amount, a row it updates holds the old value plus
\* amount; with amount < 0 and no row it ends in InvalidAmount with no row
\* written.
C31_CreditStep ==
    \A p \in Reqs :
        (IsCredit(p) /\ pc[p] \in {"credit_select", "credit_insert"} /\ pc'[p] # pc[p])
        => LET m == req[p].to_merchant
               c == req[p].currency
               a == req[p].amount
           IN  /\ a >= 0 => outcome'[p] # "InsufficientFunds"
               /\ (a >= 0 /\ pc[p] = "credit_insert" /\ pc'[p] = "credit_commit")
                  => \E b \in tx'[p].bins :
                        b.merchant_name = m /\ b.currency = c /\ b.amount = a
               /\ (a >= 0 /\ pc[p] = "credit_select" /\ pc'[p] = "credit_commit")
                  => \A b \in BalanceRows(m, c) :
                        OwnView(p, b)'.amount = OwnView(p, b).amount + a
               /\ (a < 0 /\ pc[p] = "credit_insert")
                  => /\ outcome'[p] = "InvalidAmount"
                     /\ tx'[p] = EmptyTx
                     /\ balances' = balances

\* C31: credit(merchant, currency, amount) with amount >= 0 never fails for
\* insufficient funds: when no balance row exists it creates one holding
\* exactly amount, otherwise it adds amount to the existing row; when no row
\* exists and amount < 0 it fails with InvalidAmount and creates no row.
C31_Credit == [][C31_CreditStep]_vars

\* Session p has flushed a credit of its transfer: an inserted row for the
\* recipient, or an update of the recipient's row.
Credited(p) ==
    \/ \E b \in tx[p].bins : b.merchant_name = req[p].to_merchant
                             /\ b.currency = req[p].currency
    \/ \E u \in tx[p].bupd : u.merchant_name = req[p].to_merchant
                             /\ u.currency = req[p].currency

\* Session p has flushed the debit of its transfer: it holds the lock of the
\* sender's row and an update of it.
Debited(p) ==
    /\ <<req[p].from_merchant, req[p].currency>> \in tx[p].locks
    /\ \E u \in tx[p].bupd : u.merchant_name = req[p].from_merchant
                             /\ u.currency = req[p].currency

\* A credit is flushed only by a session that has flushed its debit, and a
\* session at or before its debit has flushed no credit.
C32_CreditImpliesDebit ==
    \A p \in Reqs :
        IsTransfer(p)
        => /\ Credited(p) => Debited(p)
           /\ pc[p] \in {"route_probe", "uc_probe", "check_from", "check_to", "debit"}
              => ~Credited(p)

\* The step that flushes the credit is taken with the debit in place, and a
\* refused debit has no credit to undo: nothing was flushed, nothing changes.
C32_Step ==
    \A p \in Reqs :
        IsTransfer(p)
        => /\ (~Credited(p) /\ Credited(p)') => Debited(p)
           /\ (pc[p] = "debit" /\ pc'[p] = "done")
              => /\ tx[p].bupd = {} /\ tx[p].bins = {}
                 /\ balances' = balances

\* C32: within a transfer the debit always precedes the credit: in no state,
\* committed or in-flight, has the recipient been credited for a transfer
\* whose sender debit has not already been applied in the same transaction,
\* so a failed debit never leaves a credit to reverse.
C32_DebitBeforeCredit == [](C32_CreditImpliesDebit) /\ [][C32_Step]_vars

\* One transfer has flushed its debit and its credit, and another was refused
\* at its debit.
C32_Witness ==
    \E p \in Reqs, q \in Reqs :
        /\ IsTransfer(p) /\ Credited(p) /\ Debited(p)
        /\ IsTransfer(q) /\ pc[q] = "done" /\ outcome[q] = "InsufficientFunds"

\* ------------------------------------ all operations over a store with
\* ------------------------------------ rows and records no request touches

\* alice exists, and bob may: every merchant started with 1.0 BTC and 1.0 ETH,
\* and when both exist the ETH transfer of ListHistory has committed.  The
\* requests that follow move BTC only.
InitFrame ==
    \E present \in {{"alice"}, Names} :
        LET H == IF present = Names THEN {ListHistory[3]} ELSE {}
        IN  /\ merchants = {[name |-> m, rid |-> 0] : m \in present}
            /\ initial = [r \in ListRows |-> IF r[1] \in present THEN 1000000000 ELSE 0]
            /\ balances =
                  {[merchant_name |-> r[1], currency |-> r[2], rid |-> 0,
                    amount |-> initial[r]
                       + SumAmount({t \in H : <<t.to_merchant, t.currency>> = r})
                       - SumDebit({t \in H : <<t.from_merchant, t.currency>> = r})] :
                      r \in {x \in ListRows : x[1] \in present}}
            /\ transfers = H
            /\ idem = {[idempotency_key |-> t.idempotency_key, transfer_id |-> t.id,
                        response_data |->
                           [transfer_id |-> t.id, from_merchant |-> t.from_merchant,
                            to_merchant |-> t.to_merchant, currency |-> t.currency,
                            amount |-> t.amount, fee |-> t.fee,
                            created_at |-> t.created_at]] : t \in H}
            /\ nextId = Len(ListHistory) + 1
            /\ clock = ListHistory[Len(ListHistory)].created_at
            /\ req = [p \in Reqs |-> NoReq]
            /\ pc = [p \in Reqs |-> "idle"]
            /\ tx = [p \in Reqs |-> EmptyTx]
            /\ fee = [p \in Reqs |-> 0]
            /\ outcome = [p \in Reqs |-> "none"]
            /\ cause = [p \in Reqs |-> "none"]
            /\ result = [p \in Reqs |-> NoResult]

SpecFrame == InitFrame /\ [][NextQuery]_vars

\* The balance rows other than the two rows of transfer p.
OtherRows(p, B) ==
    {b \in B : /\ <<b.merchant_name, b.currency>> # <<req[p].from_merchant, req[p].currency>>
               /\ <<b.merchant_name, b.currency>> # <<req[p].to_merchant, req[p].currency>>}

\* The commit of a transfer keeps every other balance row, the merchants and
\* the records there were; every other step of a transfer, and every step of a
\* query, leaves the four tables as they are.
C33_FrameStep ==
    \A p \in Reqs :
        (pc'[p] # pc[p] /\ (req'[p].kind = "transfer" \/ IsQuery(p)'))
        => IF req[p].kind = "transfer" /\ pc[p] = "commit" /\ outcome'[p] = "ok"
           THEN /\ OtherRows(p, balances') = OtherRows(p, balances)
                /\ merchants' = merchants
                /\ transfers \subseteq transfers'
                /\ idem \subseteq idem'
           ELSE db' = db

\* C33: a successful execute_transfer(from, to, currency, ...) leaves unchanged
\* every balance row other than (from, currency) and (to, currency), the set
\* of merchants, and every previously existing Transfer record and
\* IdempotencyRecord; a failed execute_transfer, and every query operation
\* (get_merchant, get_balance, list_transfers), leaves the whole committed
\* state unchanged.
C33_Frame == [][C33_FrameStep]_vars

\* A BTC transfer has committed next to the ETH rows and the ETH transfer that
\* were there before, and another request, refused after its debit was flushed,
\* or a query, has ended.
C33_Witness ==
    \E p \in Reqs, q \in Reqs :
        /\ IsTransfer(p) /\ pc[p] = "done" /\ outcome[p] = "ok"
        /\ \E t \in transfers : t.idempotency_key = req[p].idempotency_key
        /\ ListHistory[3] \in transfers
        /\ \E b \in balances : b.currency = "ETH"
        /\ pc[q] = "done"
        /\ \/ IsTransfer(q) /\ outcome[q] = "InternalError"
           \/ IsQuery(q)

\* No step removes or alters a committed Transfer, IdempotencyRecord or
\* merchant: each is a member of its table after the step, field for field.
C34_StableStep ==
    /\ transfers \subseteq transfers'
    /\ idem \subseteq idem'
    /\ merchants \subseteq merchants'

\* C34: committed records are stable: once a Transfer record and its
\* IdempotencyRecord snapshot are committed, they exist with the same field
\* values in every later state, and a merchant once created is never deleted
\* or renamed by any core operation.
C34_Stable == [][C34_StableStep]_vars

\* A second transfer has committed after a first one, whose records are kept.
C34_Witness ==
    /\ Cardinality(transfers) = 2
    /\ Cardinality(idem) = 2
    /\ \A p \in Reqs : IsTransfer(p) /\ pc[p] = "done" /\ outcome[p] = "ok"
                       /\ ~result[p].is_duplicate

\* ------------------------------------ a caller repeats a refused transfer

\* The business failures of execute_transfer.
BusinessFailures == {"MerchantNotFound", "InvalidTransfer", "InsufficientFunds"}

\* bob holds 1.0 and alice has no balance row.  Request 1 is a transfer to bob
\* under key 1, from alice or from a merchant that does not exist, of 0.00005
\* or of 0; every other request funds alice from bob under a key of its own.
InitRetry ==
    \E f \in {"alice", "nobody"}, a \in {0, 50000} :
        /\ merchants = {[name |-> n, rid |-> 0] : n \in Names}
        /\ initial = [r \in Rows |-> IF r[1] = "bob" THEN 1000000000 ELSE 0]
        /\ balances = {[merchant_name |-> "bob", currency |-> "BTC",
                        amount |-> 1000000000, rid |-> 0]}
        /\ transfers = {}
        /\ idem = {}
        /\ nextId = 1
        /\ clock = 0
        /\ req = [p \in Reqs |->
                    IF p = 1
                    THEN [kind |-> "transfer", from_merchant |-> f, to_merchant |-> "bob",
                          currency |-> "BTC", amount |-> a, idempotency_key |-> 1]
                    ELSE [kind |-> "transfer", from_merchant |-> "bob",
                          to_merchant |-> "alice", currency |-> "BTC",
                          amount |-> 999000000, idempotency_key |-> p]]
        /\ pc = [p \in Reqs |-> "route_probe"]
        /\ tx = [p \in Reqs |-> EmptyTx]
        /\ fee = [p \in Reqs |-> 0]
        /\ outcome = [p \in Reqs |-> "none"]
        /\ cause = [p \in Reqs |-> "none"]
        /\ result = [p \in Reqs |-> NoResult]

\* The caller of a refused transfer sends the same request, key included,
\* again; cause keeps the exception of the refused call.
Retry(p) ==
    /\ pc[p] = "done"
    /\ outcome[p] \in BusinessFailures
    /\ outcome' = [outcome EXCEPT ![p] = "none"]
    /\ Goto(p, "route_probe")
    /\ UNCHANGED <<merchants, balances, transfers, idem, nextId, clock, req, tx, fee,
                   cause, result, initial>>

NextRetry == NextBurst \/ \E p \in Reqs : Retry(p)

SpecRetry == InitRetry /\ [][NextRetry]_vars

\* After a business failure no IdempotencyRecord, committed or pending, exists
\* for the key of the call.
C35_KeyFree ==
    \A p \in Reqs :
        (IsTransfer(p) /\ pc[p] = "done" /\ outcome[p] \in BusinessFailures)
        => /\ ~\E i \in idem : i.idempotency_key = req[p].idempotency_key
           /\ \A q \in Reqs :
                 ~\E i \in tx[q].kins : i.idempotency_key = req[p].idempotency_key

\* The repeated call passes both probes of the key and goes on to the checks:
\* it is not answered from a stored response.
C35_FromStartStep ==
    \A p \in Reqs :
        (IsTransfer(p) /\ cause[p] # "none" /\ outcome[p] = "none"
           /\ pc[p] \in {"route_probe", "uc_probe"} /\ pc'[p] # pc[p])
        => /\ pc'[p] = IF pc[p] = "route_probe" THEN "uc_probe" ELSE "check_from"
           /\ result'[p] = NoResult

\* C35: a failed execute_transfer does not consume its idempotency key: after
\* a call fails with MerchantNotFound, InvalidTransfer or InsufficientFunds,
\* no IdempotencyRecord exists for the key, and a later call with the same key
\* is executed from the start (it can succeed once the cause is removed, e.g.
\* the sender has been funded) instead of replaying the failure.
C35_KeyNotConsumed == [](C35_KeyFree) /\ [][C35_FromStartStep]_vars

\* The call under key 1 was refused for insufficient funds, alice was funded,
\* and the same call sent again has committed its transfer.
C35_Witness ==
    /\ pc[1] = "done" /\ outcome[1] = "ok" /\ cause[1] = "InsufficientFundsError"
    /\ ~result[1].is_duplicate
    /\ \E t \in transfers : t.idempotency_key = 1 /\ t.from_merchant = "alice"

\* ------------------------------------ transfers with faulty input, sent to
\* ------------------------------------ the route or to the use case

\* alice holds 1.0 and bob 1.0 or no row.  Each request is a transfer from
\* alice to bob, to alice herself or to a merchant that does not exist, of
\* 0.00005 or of 0, under its own key or under the empty key, and it enters at
\* the HTTP route or, as a direct call, at ExecuteTransferUseCase.execute.
InitInput ==
    \E to \in [Reqs -> PayloadNames], a \in [Reqs -> {0, 50000}],
       empty \in SUBSET Reqs, direct \in SUBSET Reqs, bb \in {0, 1000000000} :
        /\ merchants = {[name |-> n, rid |-> 0] : n \in Names}
        /\ initial = [r \in Rows |-> IF r[1] = "alice" THEN 1000000000 ELSE bb]
        /\ balances = {[merchant_name |-> r[1], currency |-> r[2],
                        amount |-> initial[r], rid |-> 0] :
                          r \in {x \in Rows : initial[x] > 0}}
        /\ transfers = {}
        /\ idem = {}
        /\ nextId = 1
        /\ clock = 0
        /\ req = [p \in Reqs |-> [kind |-> "transfer", from_merchant |-> "alice",
                                   to_merchant |-> to[p], currency |-> "BTC",
                                   amount |-> a[p],
                                   idempotency_key |->
                                      IF p \in empty THEN EmptyKey ELSE p]]
        /\ pc = [p \in Reqs |-> IF p \in direct THEN "uc_probe" ELSE "route_probe"]
        /\ tx = [p \in Reqs |-> EmptyTx]
        /\ fee = [p \in Reqs |-> 0]
        /\ outcome = [p \in Reqs |-> "none"]
        /\ cause = [p \in Reqs |-> "none"]
        /\ result = [p \in Reqs |-> NoResult]

SpecInput == InitInput /\ [][NextBurst]_vars

\* The input of transfer p is faulty: a merchant that does not exist, sender
\* and recipient the same, an amount that is not positive, or the empty key.
FaultyInput(p) ==
    \/ ~MerchantExists(req[p].from_merchant)
    \/ ~MerchantExists(req[p].to_merchant)
    \/ req[p].from_merchant = req[p].to_merchant
    \/ req[p].amount <= 0
    \/ req[p].idempotency_key = EmptyKey

\* C36: execute_transfer detects every error caused by the caller's input
\* (unknown merchant, from == to, amount <= 0, empty idempotency key) before it
\* performs the first balance write of the transaction; in particular a call
\* with an empty idempotency key is rejected without the sender having been
\* debited or the recipient credited at any point.
C36_InputErrorsBeforeWrite ==
    \A p \in Reqs :
        (IsTransfer(p) /\ FaultyInput(p))
        => /\ tx[p].bupd = {} /\ tx[p].bins = {} /\ tx[p].locks = {}
           /\ pc[p] \notin {"credit_select", "credit_insert", "transfer_insert",
                            "idem_store", "commit"}

\* A transfer that has passed its debit ends only by committing.
C37_Step ==
    \A p \in Reqs :
        (IsTransfer(p)
           /\ pc[p] \in {"credit_select", "credit_insert", "transfer_insert",
                         "idem_store", "commit"}
           /\ pc'[p] = "done")
        => outcome'[p] = "ok"

\* C37: a transfer with existing distinct merchants, amount > 0, a fresh
\* idempotency key and a sender balance >= amount + fee when its debit is
\* evaluated always commits successfully, whatever other transfers with other
\* keys run concurrently, including transfers from other senders to the same
\* recipient whose (recipient, currency) balance row does not exist yet.
C37_AlwaysCommits == [][C37_Step]_vars

\* C38: in every committed state every balance row belongs to an existing
\* merchant and every Transfer record names a sender and a recipient that both
\* exist, although the store declares no foreign keys; no sequence of
\* create_merchant and execute_transfer calls creates a balance row or a
\* transfer for a merchant name that was never created.
C38_ReferencesExist ==
    /\ \A b \in balances : \E m \in merchants : m.name = b.merchant_name
    /\ \A t \in transfers :
          /\ \E m \in merchants : m.name = t.from_merchant
          /\ \E m \in merchants : m.name = t.to_merchant

\* A transfer has committed, crediting a recipient through a row it inserted,
\* and a transfer to a merchant that was never created has been refused.
C38_Witness ==
    \E p \in Reqs, q \in Reqs :
        /\ IsTransfer(p) /\ pc[p] = "done" /\ outcome[p] = "ok"
        /\ \E t \in transfers : t.idempotency_key = req[p].idempotency_key
        /\ \E b \in balances : b.merchant_name = req[p].to_merchant /\ b.rid = p
        /\ IsTransfer(q) /\ pc[q] = "done" /\ outcome[q] = "MerchantNotFound"
        /\ ~\E m \in merchants : m.name = req[q].to_merchant

\* ------------------------------------ create_merchant with any currency

CreateCurrencies == Currencies \cup {EmptyCurrency}

\* Initial balances a caller of the use case passes: none, finer than the
\* column, 1.0.
CreateBalances == {0, 4, 1000000000}

\* Some of the names exist, without balance rows.  Each request is a call of
\* CreateMerchantUseCase.execute with a name, a currency that may be empty and
\* an initial balance.
InitCreate ==
    \E present \in SUBSET {"bob"}, n \in [Reqs -> Names],
       c \in [Reqs -> CreateCurrencies], a \in [Reqs -> CreateBalances] :
        /\ merchants = {[name |-> m, rid |-> 0] : m \in present}
        /\ initial = [r \in Rows |-> 0]
        /\ balances = {}
        /\ transfers = {}
        /\ idem = {}
        /\ nextId = 1
        /\ clock = 0
        /\ req = [p \in Reqs |-> [kind |-> "create", merchant_name |-> n[p],
                                   currency |-> c[p], initial_balance |-> a[p]]]
        /\ pc = [p \in Reqs |-> "cm_check"]
        /\ tx = [p \in Reqs |-> EmptyTx]
        /\ fee = [p \in Reqs |-> 0]
        /\ outcome = [p \in Reqs |-> "none"]
        /\ cause = [p \in Reqs |-> "none"]
        /\ result = [p \in Reqs |-> NoResult]

NextCreate ==
    \E p \in Reqs :
        \/ CmCheck(p)
        \/ CmInsertMerchant(p)
        \/ CmInsertBalance(p)
        \/ CommitCreate(p)

SpecCreate == InitCreate /\ [][NextCreate]_vars

\* A committed merchant row written by request p is there because p succeeded,
\* and with it the balance row of an initial balance above zero; a request
\* that has failed has left no merchant row and no balance row.
C39_Whole ==
    \A p \in Reqs :
        IsCreate(p)
        => /\ (\E m \in merchants : m.rid = p)
              => /\ pc[p] = "done" /\ outcome[p] = "ok"
                 /\ req[p].initial_balance > 0
                    => \E b \in balances : /\ b.merchant_name = req[p].merchant_name
                                           /\ b.currency = req[p].currency
                                           /\ b.rid = p
           /\ (pc[p] = "done" /\ outcome[p] # "ok")
              => /\ ~\E m \in merchants : m.rid = p
                 /\ ~\E b \in balances : b.rid = p
                 /\ tx[p] = EmptyTx

\* The step in which a create_merchant call fails changes no table, also when
\* the merchant row had been written.
C39_FailStep ==
    \A p \in Reqs :
        (IsCreate(p) /\ pc[p] # "done" /\ pc'[p] = "done" /\ outcome'[p] # "ok")
        => db' = db

\* C39: create_merchant is all-or-nothing: in every committed state a merchant
\* created with initial_balance > 0 has its initial balance row, and when
\* creating the balance row fails after the merchant row was written (e.g. an
\* empty currency rejected by the Balance entity, or a uniqueness violation)
\* the merchant row is not committed either.
C39_CreateAllOrNothing == [](C39_Whole) /\ [][C39_FailStep]_vars

\* One call was refused by the Balance entity for its empty currency after its
\* merchant row had been written, and its name is not a merchant; another has
\* committed its merchant with the balance row.
C39_Witness ==
    \E p \in Reqs, q \in Reqs :
        /\ IsCreate(p) /\ pc[p] = "done" /\ cause[p] = "ValueError(balance)"
        /\ req[p].currency = EmptyCurrency
        /\ ~\E m \in merchants : m.name = req[p].merchant_name
        /\ IsCreate(q) /\ pc[q] = "done" /\ outcome[q] = "ok"
        /\ \E b \in balances : b.merchant_name = req[q].merchant_name /\ b.rid = q

====
